---- MODULE Spec2Model ----
(***************************************************************************)
(* AltairX K1 virtual machine: the instruction interpreter AxCore.         *)
(*                                                                         *)
(* A 64-bit machine word is modelled bit-exactly as the tuple of its eight *)
(* bytes, least significant byte first: 1 is <<1,0,0,0,0,0,0,0>> and       *)
(* 0xFFFFFFFFFFFFFFFF is <<255,255,255,255,255,255,255,255>>.  A 32-bit    *)
(* register (PC, IR) is a word whose four upper bytes are 0.               *)
(***************************************************************************)
EXTENDS Integers, Naturals, Sequences, FiniteSets, TLC

VARIABLES
  m_regs,      \* AxCore::m_regs, the RegisterSet
  m_syscall,   \* AxCore::m_syscall, the syscall-pending flag
  m_memory,    \* the bytes of the memory the core loads from and stores to
  panicked,    \* TRUE once ax_panic has aborted the run
  last,        \* the last call of execute(): its arguments, imm24 and result,
               \* and the two instructions of the call before it
  steps,       \* the number of execute() calls made so far
  m_wram,      \* the instruction words cycle() fetches, by word address
  host         \* the driver of the core: its loop position, the runner's
               \* status and threads, and what the syscall gate did

vars == <<m_regs, m_syscall, m_memory, panicked, last, steps, m_wram, host>>

----------------------------------------------------------------------------
(* Machine words                                                           *)

XLEN == 64
PCLEN == 32
BYTE == 256

Zero == <<0, 0, 0, 0, 0, 0, 0, 0>>
One == <<1, 0, 0, 0, 0, 0, 0, 0>>

\* The word of a natural number below 2^31.
W(n) == <<n % BYTE, (n \div BYTE) % BYTE, (n \div (BYTE * BYTE)) % BYTE,
          n \div (BYTE * BYTE * BYTE), 0, 0, 0, 0>>

\* The natural number of a word below 2^24.
ToNat(x) == x[1] + BYTE * x[2] + BYTE * BYTE * x[3]
IsSmall(x) == \A i \in 4..8 : x[i] = 0

\* 64-bit words from 16-bit groups, most significant first
Word4(d, c, b, a) ==
  <<a % BYTE, a \div BYTE, b % BYTE, b \div BYTE,
    c % BYTE, c \div BYTE, d % BYTE, d \div BYTE>>

\* bitwise operators on 4-bit digits, on bytes and on words
BitAt(n, k) == (n \div (2^k)) % 2
XorDigit == [a \in 0..15 |-> [b \in 0..15 |->
  ((BitAt(a, 0) + BitAt(b, 0)) % 2) + 2 * ((BitAt(a, 1) + BitAt(b, 1)) % 2)
  + 4 * ((BitAt(a, 2) + BitAt(b, 2)) % 2) + 8 * ((BitAt(a, 3) + BitAt(b, 3)) % 2)]]
AndDigit == [a \in 0..15 |-> [b \in 0..15 |->
  (BitAt(a, 0) * BitAt(b, 0)) + 2 * (BitAt(a, 1) * BitAt(b, 1))
  + 4 * (BitAt(a, 2) * BitAt(b, 2)) + 8 * (BitAt(a, 3) * BitAt(b, 3))]]
XorByte(a, b) == 16 * XorDigit[a \div 16][b \div 16] + XorDigit[a % 16][b % 16]
AndByte(a, b) == 16 * AndDigit[a \div 16][b \div 16] + AndDigit[a % 16][b % 16]

XorW(a, b) == [i \in 1..8 |-> XorByte(a[i], b[i])]
AndW(a, b) == [i \in 1..8 |-> AndByte(a[i], b[i])]
OrW(a, b) == [i \in 1..8 |-> a[i] + b[i] - AndByte(a[i], b[i])]
NotW(a) == [i \in 1..8 |-> (BYTE - 1) - a[i]]

\* the word with the low w bits set, and a cast to an unsigned type of w bits,
\* for w = 8, 16, 32, 64
AllOnes(w) == [i \in 1..8 |-> IF 8 * i <= w THEN BYTE - 1 ELSE 0]
Cast(x, w) == [i \in 1..8 |-> IF 8 * i <= w THEN x[i] ELSE 0]

\* the sign bit of a w-bit value, and a cast from the signed type of w bits to
\* int64_t
SignBit(x, w) == x[w \div 8] >= BYTE \div 2
SignExtend(x, w) ==
  [i \in 1..8 |-> IF 8 * i <= w THEN x[i]
                  ELSE IF SignBit(x, w) THEN BYTE - 1 ELSE 0]

\* a + b + c modulo 2^64, c the carry in
AddC(a, b, c) ==
  LET s1 == a[1] + b[1] + c
      s2 == a[2] + b[2] + s1 \div BYTE
      s3 == a[3] + b[3] + s2 \div BYTE
      s4 == a[4] + b[4] + s3 \div BYTE
      s5 == a[5] + b[5] + s4 \div BYTE
      s6 == a[6] + b[6] + s5 \div BYTE
      s7 == a[7] + b[7] + s6 \div BYTE
      s8 == a[8] + b[8] + s7 \div BYTE
  IN <<s1 % BYTE, s2 % BYTE, s3 % BYTE, s4 % BYTE,
       s5 % BYTE, s6 % BYTE, s7 % BYTE, s8 % BYTE>>

\* uint64_t addition and subtraction
Add(a, b) == AddC(a, b, 0)
Sub(a, b) == AddC(a, NotW(b), 1)

\* unsigned a < b, and signed a < b on int64_t
Ult(a, b) == \E i \in 1..8 : a[i] < b[i] /\ \A j \in (i + 1)..8 : a[j] = b[j]
FlipSign(x) == [x EXCEPT ![8] = (@ + BYTE \div 2) % BYTE]
Slt(a, b) == Ult(FlipSign(a), FlipSign(b))

\* x << n and x >> n on uint64_t, and x >> n on int64_t, for 0 <= n < 64
ByteAt(x, i, fill) == IF i < 1 THEN 0 ELSE IF i > 8 THEN fill ELSE x[i]
Shl(x, n) ==
  LET q == n \div 8
      r == n % 8
  IN [i \in 1..8 |-> ((ByteAt(x, i - q, 0) * (2^r)) % BYTE)
                       + (ByteAt(x, i - q - 1, 0) \div (2^(8 - r)))]
ShrFill(x, n, fill) ==
  LET q == n \div 8
      r == n % 8
  IN [i \in 1..8 |-> (ByteAt(x, i + q, fill) \div (2^r))
                       + ((ByteAt(x, i + q + 1, fill) * (2^(8 - r))) % BYTE)]
Shr(x, n) == ShrFill(x, n, 0)
Sar(x, n) == ShrFill(x, n, IF SignBit(x, XLEN) THEN BYTE - 1 ELSE 0)

\* uint64_t multiplication: the low 64 bits of the product
MulColumn(a, b, k) ==
  LET t(i) == IF i <= k THEN a[i] * b[k + 1 - i] ELSE 0
  IN t(1) + t(2) + t(3) + t(4) + t(5) + t(6) + t(7) + t(8)

Mul(a, b) ==
  LET s1 == MulColumn(a, b, 1)
      s2 == MulColumn(a, b, 2) + s1 \div BYTE
      s3 == MulColumn(a, b, 3) + s2 \div BYTE
      s4 == MulColumn(a, b, 4) + s3 \div BYTE
      s5 == MulColumn(a, b, 5) + s4 \div BYTE
      s6 == MulColumn(a, b, 6) + s5 \div BYTE
      s7 == MulColumn(a, b, 7) + s6 \div BYTE
      s8 == MulColumn(a, b, 8) + s7 \div BYTE
  IN <<s1 % BYTE, s2 % BYTE, s3 % BYTE, s4 % BYTE,
       s5 % BYTE, s6 % BYTE, s7 % BYTE, s8 % BYTE>>

\* uint64_t division, b # 0: <<a / b, a % b>> by long division, bit 63 first.
\* DivBit takes the pair <<quotient, remainder>> through bit i of a; DivBits
\* takes it through the n upper bits of the byte starting at bit base;
\* DivBytes takes it through the k upper bytes of a.
DivBit(st, a, b, i) ==
  LET r2 == AddC(Shl(st[2], 1), Zero, BitAt(a[(i \div 8) + 1], i % 8))
  IN IF SignBit(st[2], XLEN) \/ ~Ult(r2, b)
     THEN <<[st[1] EXCEPT ![(i \div 8) + 1] = @ + 2^(i % 8)], Sub(r2, b)>>
     ELSE <<st[1], r2>>

RECURSIVE DivBits(_, _, _, _, _)
DivBits(st, a, b, base, n) ==
  IF n = 0 THEN st
  ELSE CHOOSE x \in {DivBit(s, a, b, base + 8 - n) :
                       s \in {DivBits(st, a, b, base, n - 1)}} : TRUE

RECURSIVE DivBytes(_, _, _)
DivBytes(a, b, k) ==
  IF k = 0 THEN <<Zero, Zero>>
  ELSE CHOOSE x \in {DivBits(s, a, b, 8 * (8 - k), 8) :
                       s \in {DivBytes(a, b, k - 1)}} : TRUE

UDivMod(a, b) == DivBytes(a, b, 8)

\* int64_t division, b # 0 and not INT64_MIN / -1: the quotient truncated
\* toward zero and the remainder, which has the sign of a
Neg(x) == Sub(Zero, x)
Abs(x) == IF SignBit(x, XLEN) THEN Neg(x) ELSE x

SDivMod(a, b) ==
  LET m == UDivMod(Abs(a), Abs(b))
  IN <<IF SignBit(a, XLEN) # SignBit(b, XLEN) THEN Neg(m[1]) ELSE m[1],
       IF SignBit(a, XLEN) THEN Neg(m[2]) ELSE m[2]>>

sizemask(size) == AllOnes(8 * (2^size))

sext_bitsize(val, bitsize) ==
  LET mask == Shl(One, bitsize - 1)
  IN Sub(XorW(val, mask), mask)

sext_bytesize(val, bytesize) == sext_bitsize(val, 8 * bytesize)

----------------------------------------------------------------------------
(* Registers and flags (core.hpp)                                          *)

REG_ACC == 56
REG_BA1 == 57
REG_BA2 == 58
REG_BF1 == 59
REG_BF2 == 60
REG_BL1 == 61
REG_BL2 == 62
REG_ZERO == 63
IREG_COUNT == 64
VREG_COUNT == 64

Z_MASK == 1
C_MASK == 2
N_MASK == 4
O_MASK == 8
U_MASK == 16

\* FR is the number its bits make; the program only ever touches the five flags
HasFlag(fr, mask) == (fr \div mask) % 2 = 1
SetFlag(fr, mask, on) ==
  IF on THEN (IF HasFlag(fr, mask) THEN fr ELSE fr + mask)
  ELSE (IF HasFlag(fr, mask) THEN fr - mask ELSE fr)

RegisterSet ==
  [fr |-> 0, lr |-> Zero, br |-> Zero, lc |-> Zero, pc |-> Zero, ir |-> Zero,
   cc |-> Zero, ic |-> Zero,
   gpi |-> [r \in 0..(IREG_COUNT - 1) |-> Zero],
   gpf |-> [r \in 0..(VREG_COUNT - 1) |-> Zero],
   mdu |-> [q \in 0..3 |-> Zero],
   efu_q |-> Zero]

----------------------------------------------------------------------------
(* Instruction words (AxOpcode).  A word is the record of its decoded      *)
(* fields; the immediates are the natural numbers held by the bit-fields.  *)

AX_UNIT_ALU_A == 0
AX_UNIT_ALU_B == 1
AX_UNIT_LSU == 2
AX_UNIT_FPU == 3
AX_UNIT_EFU_CU == 5
AX_UNIT_MDU_VU == 6
AX_UNIT_BRU == 7

Opcode(unit, operation) ==
  [size |-> 0, unit |-> unit, operation |-> operation, bundle |-> FALSE,
   reg_a |-> 0, reg_b |-> 0, reg_c |-> 0,
   alu_has_imm |-> FALSE, alu_imm9 |-> 0, alu_shift |-> 0, alu_move_imm |-> 0,
   ext_ins_imm1 |-> 0, ext_ins_imm2 |-> 0, lsu_imm10 |-> 0, lsu_shift |-> 0,
   mdu_pq |-> 0, bru_imm23 |-> 0, bru_imm24 |-> 0, moveix_imm24 |-> 0]

is_bundle(op) == op.bundle

is_moveix(op) == op.unit = AX_UNIT_ALU_A /\ op.operation = "MOVEIX"

----------------------------------------------------------------------------
(* The state the unit executors work on: the register set, the syscall     *)
(* flag, the memory and whether ax_panic was called.                       *)

Core(regs, syscall, mem, panic) ==
  [regs |-> regs, syscall |-> syscall, mem |-> mem, panic |-> panic]

SetGpi(S, r, v) == [S EXCEPT !.regs.gpi[r] = v]
SetGpf(S, r, v) == [S EXCEPT !.regs.gpf[r] = v]
ax_panic(S) == [S EXCEPT !.panic = TRUE]

\* static_cast<uint64_t>(bool)
BoolW(b) == IF b THEN One ELSE Zero

\* The outcomes of a shift whose count is negative or not below 64, which is
\* undefined in C++: the count taken modulo 64, or every bit shifted out.
UBShifts == {"wrap", "flush"}

ShiftCount(c) == c[1] % XLEN
InRange(c) == c[1] < XLEN /\ \A i \in 2..8 : c[i] = 0

ShlUB(x, c, ub) ==
  IF InRange(c) \/ ub = "wrap" THEN Shl(x, ShiftCount(c)) ELSE Zero
ShrUB(x, c, ub) ==
  IF InRange(c) \/ ub = "wrap" THEN Shr(x, ShiftCount(c)) ELSE Zero
SarUB(x, c, ub) ==
  IF InRange(c) \/ ub = "wrap" THEN Sar(x, ShiftCount(c)) ELSE Sar(x, XLEN - 1)

----------------------------------------------------------------------------
(* do_cmp<T>: T is the signed type of w bits; left and right are the       *)
(* values of type T, held sign-extended.  The overflow test is the         *)
(* compiler builtin under GCC and Clang and the hand-written range test    *)
(* otherwise.                                                              *)

Builds == {"gnu", "other"}

\* the carry out of bit 63 of a + b + c
CarryOut(a, b, c) ==
  LET s1 == a[1] + b[1] + c
      s2 == a[2] + b[2] + s1 \div BYTE
      s3 == a[3] + b[3] + s2 \div BYTE
      s4 == a[4] + b[4] + s3 \div BYTE
      s5 == a[5] + b[5] + s4 \div BYTE
      s6 == a[6] + b[6] + s5 \div BYTE
      s7 == a[7] + b[7] + s6 \div BYTE
      s8 == a[8] + b[8] + s7 \div BYTE
  IN s8 \div BYTE

SignFill(x) == IF SignBit(x, XLEN) THEN BYTE - 1 ELSE 0

\* a subtraction that never reports an overflow
sub_overflow_never(left, right, w) == FALSE

\* __builtin_sub_overflow(left, right, &tmp2): the exact difference, worked out
\* on 72 bits, is not a value of the signed type of w bits
builtin_sub_overflow(left, right, w) ==
  LET low == Sub(left, right)
      high == (SignFill(left) + ((BYTE - 1) - SignFill(right))
                 + CarryOut(left, NotW(right), 1)) % BYTE
  IN ~(low = SignExtend(low, w) /\ high = SignFill(low))

\* (right > 0 && left < min + right) || (right < 0 && left > max + right)
manual_sub_overflow(left, right, w) ==
  LET min == SignExtend(Shl(One, w - 1), w)
      max == Sub(Shl(One, w - 1), One)
  IN \/ Slt(Zero, right) /\ Slt(left, Add(min, right))
     \/ Slt(right, Zero) /\ Slt(Add(max, right), left)

\* a compare whose carry test is the wrong way round
do_cmp_carry_reversed(fr, left, right, w, build) ==
  LET tmp == Cast(Sub(left, right), w)
      o == IF build = "gnu" THEN builtin_sub_overflow(left, right, w)
           ELSE manual_sub_overflow(left, right, w)
      f1 == SetFlag(fr, O_MASK, o)
      f2 == SetFlag(f1, Z_MASK, tmp = Zero)
      f3 == SetFlag(f2, C_MASK, Ult(tmp, Cast(left, w)))
      f4 == SetFlag(f3, N_MASK, SignBit(tmp, w))
  IN SetFlag(f4, U_MASK, FALSE)

\* a compare that leaves the U flag as it finds it
do_cmp_keeping_u(fr, left, right, w, build) ==
  LET tmp == Cast(Sub(left, right), w)
      o == IF build = "gnu" THEN builtin_sub_overflow(left, right, w)
           ELSE manual_sub_overflow(left, right, w)
      f1 == SetFlag(fr, O_MASK, o)
      f2 == SetFlag(f1, Z_MASK, tmp = Zero)
      f3 == SetFlag(f2, C_MASK, Ult(Cast(left, w), tmp))
  IN SetFlag(f3, N_MASK, SignBit(tmp, w))

do_cmp(fr, left, right, w, build) ==
  LET tmp == Cast(Sub(left, right), w)
      o == IF build = "gnu" THEN builtin_sub_overflow(left, right, w)
           ELSE manual_sub_overflow(left, right, w)
      f1 == SetFlag(fr, O_MASK, o)
      f2 == SetFlag(f1, Z_MASK, tmp = Zero)
      f3 == SetFlag(f2, C_MASK, Ult(Cast(left, w), tmp))
      f4 == SetFlag(f3, N_MASK, SignBit(tmp, w))
  IN SetFlag(f4, U_MASK, FALSE)

----------------------------------------------------------------------------
(* AxCore::execute_alu                                                     *)

alu_writeback(S, op, slot, value) ==
  LET S1 == SetGpi(S, REG_BA1 + slot, value)
  IN IF op.reg_a # REG_ACC THEN SetGpi(S1, op.reg_a, value) ELSE S1

alu_orback(S, op, slot, value) ==
  IF op.reg_a = REG_ACC
  THEN SetGpi(S, REG_BA1 + slot,
              OrW(S.regs.gpi[REG_BA1 + slot], S.regs.gpi[op.reg_a]))
  ELSE LET merged == OrW(S.regs.gpi[op.reg_a], value)
       IN SetGpi(SetGpi(S, op.reg_a, merged), REG_BA1 + slot, merged)

alu_read_reg(S, slot, reg) ==
  IF reg = REG_ACC THEN S.regs.gpi[REG_BA1 + slot] ELSE S.regs.gpi[reg]

alu_left(S, op, slot) == alu_read_reg(S, slot, op.reg_b)

alu_right(S, op, slot, imm24) ==
  IF ~op.alu_has_imm THEN alu_read_reg(S, slot, op.reg_c)
  ELSE XorW(sext_bitsize(W(op.alu_imm9), 9), Shl(W(imm24), 8))

\* (1ull << imm2) - 1
ext_ins_mask(op) == Sub(Shl(One, op.ext_ins_imm2), One)

execute_alu(S, op, slot, imm24, build, ub) ==
  LET left == alu_left(S, op, slot)
      right == alu_right(S, op, slot, imm24)
      trunc(value) == AndW(value, sizemask(op.size))
      sext(value) == sext_bytesize(value, 2^op.size)
      w == 8 * (2^op.size)
      wb(value) == alu_writeback(S, op, slot, value)
      o == op.operation
  IN CASE o = "MOVEIX" -> S
       [] o = "MOVEI" ->
            wb(XorW(sext_bitsize(W(op.alu_move_imm), 18), Shl(W(imm24), 18)))
       [] o = "EXT" -> wb(AndW(Shr(left, op.ext_ins_imm1), ext_ins_mask(op)))
       [] o = "INS" ->
            alu_orback(S, op, slot, AndW(Shl(left, op.ext_ins_imm1), ext_ins_mask(op)))
       [] o \in {"MAX", "UMAX", "MIN", "UMIN"} -> ax_panic(S)
       [] o = "ADDS" -> wb(sext(Add(trunc(left), trunc(right))))
       [] o = "SUBS" -> wb(sext(Sub(trunc(left), trunc(right))))
       [] o = "CMP" ->
            \* static_cast<intN_t>(left()), static_cast<intN_t>(right())
            [S EXCEPT !.regs.fr =
               do_cmp(@, SignExtend(left, w), SignExtend(right, w), w, build)]
       [] o \in {"BIT", "TEST", "TESTFR"} -> ax_panic(S)
       [] o = "ADD" -> wb(trunc(Add(trunc(left), trunc(right))))
       [] o = "SUB" -> wb(trunc(Sub(trunc(left), trunc(right))))
       [] o = "XOR" -> wb(XorW(trunc(left), trunc(right)))
       [] o = "OR" -> wb(OrW(trunc(left), trunc(right)))
       [] o = "AND" -> wb(AndW(trunc(left), trunc(right)))
       [] o = "LSL" -> wb(trunc(ShlUB(trunc(left), trunc(right), ub)))
       [] o = "ASR" -> wb(trunc(SarUB(sext(trunc(left)), sext(trunc(right)), ub)))
       [] o = "LSR" -> wb(trunc(ShrUB(trunc(left), trunc(right), ub)))
       [] o = "SE" -> wb(BoolW(trunc(left) = trunc(right)))
       [] o = "SEN" -> wb(BoolW(trunc(left) # trunc(right)))
       [] o = "SLTS" -> wb(BoolW(Ult(sext(left), sext(right))))
       [] o = "SLTU" -> wb(BoolW(trunc(left) # trunc(right)))
       [] o = "SAND" -> wb(BoolW(AndW(trunc(left), trunc(right)) # Zero))
       [] o = "SBIT" -> wb(BoolW(AndW(trunc(left), trunc(right)) = trunc(right)))
       [] o = "CMOVEN" -> IF trunc(left) = Zero THEN wb(trunc(right)) ELSE S
       [] o = "CMOVE" -> IF trunc(left) # Zero THEN wb(trunc(right)) ELSE S
       [] OTHER -> ax_panic(S)

----------------------------------------------------------------------------
(* AxCore::execute_mdu                                                     *)

MduOperations == {"DIV", "DIVU", "MUL", "MULU", "GETMD", "SETMD"}

\* What an integer division that C++ leaves undefined does (a zero divisor,
\* INT64_MIN / -1): the processor traps and the process ends, or the divide
\* instruction yields a value (quotient 0 for a zero divisor, the dividend
\* for the overflow) and the remainder follows from it.
DivFaults == {"trap", "value"}

INT64_MIN == <<0, 0, 0, 0, 0, 0, 0, 128>>

mdu_left(S, op) == S.regs.gpi[op.reg_b]

mdu_right(S, op, imm24) ==
  IF ~op.alu_has_imm THEN Shl(S.regs.gpi[op.reg_c], op.alu_shift)
  ELSE XorW(sext_bitsize(W(op.alu_imm9), 9), Shl(W(imm24), 8))

\* the registers Q and QR after the division of l by r, both taken as int64_t
\* when signed and as uint64_t otherwise; a division by zero and
\* INT64_MIN / -1 are undefined
mdu_divide(S, op, l, r, signed, fault) ==
  LET trunc(value) == AndW(value, sizemask(op.size))
      set(q, qr) == [S EXCEPT !.regs.mdu[0] = trunc(q), !.regs.mdu[1] = trunc(qr)]
      m == UDivMod(IF signed THEN Abs(l) ELSE l, IF signed THEN Abs(r) ELSE r)
  IN IF r = Zero
     THEN IF fault = "trap" THEN ax_panic(S) ELSE set(Zero, l)
     ELSE IF signed /\ l = INT64_MIN /\ r = AllOnes(XLEN)
     THEN IF fault = "trap" THEN ax_panic(S) ELSE set(l, Zero)
     ELSE set(IF signed /\ SignBit(l, XLEN) # SignBit(r, XLEN) THEN Neg(m[1]) ELSE m[1],
              IF signed /\ SignBit(l, XLEN) THEN Neg(m[2]) ELSE m[2])

execute_mdu(S, op, imm24, fault) ==
  LET o == op.operation
      left == mdu_left(S, op)
      right == mdu_right(S, op, imm24)
      trunc(value) == AndW(value, sizemask(op.size))
      sext(value) == sext_bytesize(value, 2^op.size)
      signed == o \in {"DIV", "MUL"}
  IN CASE o \in {"DIV", "DIVU"} ->
            \* DIV: sext(trunc(left)) by trunc(sext(trunc(right)));
            \* DIVU: trunc(left) by sext(trunc(right))
            mdu_divide(S, op,
                       IF signed THEN sext(trunc(left)) ELSE trunc(left),
                       IF signed THEN trunc(sext(trunc(right))) ELSE sext(trunc(right)),
                       signed, fault)
       [] o \in {"MUL", "MULU"} ->
            \* MUL: sext(trunc(left)) * sext(trunc(right));
            \* MULU: trunc(left) * sext(trunc(right))
            [S EXCEPT !.regs.mdu[2] =
               trunc(Mul(IF signed THEN sext(trunc(left)) ELSE trunc(left),
                         sext(trunc(right))))]
       [] o = "GETMD" -> SetGpi(S, op.reg_a, S.regs.mdu[op.mdu_pq])
       [] o = "SETMD" -> [S EXCEPT !.regs.mdu[op.mdu_pq] = S.regs.gpi[op.reg_a]]
       [] o \notin MduOperations -> ax_panic(S)

----------------------------------------------------------------------------
(* The memory collaborator (AxMemory), as an array of MemSize bytes at     *)
(* byte addresses 0..MemSize-1.  An access outside the array faults.       *)

MemSize == 12

MemInRange(addr, count) == IsSmall(addr) /\ ToNat(addr) + count <= MemSize

MemLoad(mem, addr, count) ==
  [i \in 1..8 |-> IF i <= count THEN mem[ToNat(addr) + i - 1] ELSE 0]

MemStore(mem, src, addr, count) ==
  [a \in DOMAIN mem |->
     IF a >= ToNat(addr) /\ a < ToNat(addr) + count
     THEN src[a - ToNat(addr) + 1] ELSE mem[a]]

\* AxCore::do_load / do_store: size 0..3 moves 1, 2, 4 or 8 bytes
SizeOk(size) == size \in 0..3

do_load(S, addr, size) == MemLoad(S.mem, addr, 2^size)

do_store(S, src, addr, size) ==
  IF SizeOk(size) /\ MemInRange(addr, 2^size)
  THEN [S EXCEPT !.mem = MemStore(@, src, addr, 2^size)]
  ELSE ax_panic(S)

----------------------------------------------------------------------------
(* AxCore::execute_lsu                                                     *)

lsu_writeback(S, op, slot, value) ==
  SetGpi(SetGpi(S, op.reg_a, value), REG_BL1 + slot, value)

lsu_writeback_float(S, op, slot, value) ==
  SetGpf(SetGpf(S, op.reg_a, value), REG_BL1 + slot, value)

lsu_read_reg(S, slot, reg) ==
  IF reg = REG_ACC THEN S.regs.gpi[REG_BL1 + slot] ELSE S.regs.gpi[reg]

addrreg(S, op, slot) ==
  Add(lsu_read_reg(S, slot, op.reg_b),
      Shl(lsu_read_reg(S, slot, op.reg_c), op.lsu_shift))

\* an immediate address that leaves out the extension of a bundled MOVEIX
addrimm_short(S, op, slot, imm24) ==
  Add(lsu_read_reg(S, slot, op.reg_b), sext_bitsize(W(op.lsu_imm10), 10))

addrimm(S, op, slot, imm24) ==
  LET off == XorW(sext_bitsize(W(op.lsu_imm10), 10), Shl(W(imm24), 9))
  IN Add(lsu_read_reg(S, slot, op.reg_b), off)

fsize_to_isize(op) == op.size + 2

execute_lsu(S, op, slot, imm24) ==
  LET o == op.operation
      sext(value) == sext_bytesize(value, 2^op.size)
      addr == IF o \in {"LD", "LDS", "FLD", "ST", "FST"}
              THEN addrreg(S, op, slot) ELSE addrimm(S, op, slot, imm24)
      size == IF o \in {"FLD", "FST", "FLDI", "FSTI"}
              THEN fsize_to_isize(op) ELSE op.size
      loads == SizeOk(size) /\ MemInRange(addr, 2^size)
  IN CASE o \in {"LD", "LDI"} ->
            IF loads THEN lsu_writeback(S, op, slot, do_load(S, addr, size))
            ELSE ax_panic(S)
       [] o \in {"LDS", "LDIS"} ->
            IF loads THEN lsu_writeback(S, op, slot, sext(do_load(S, addr, size)))
            ELSE ax_panic(S)
       [] o \in {"FLD", "FLDI"} ->
            IF loads THEN lsu_writeback_float(S, op, slot, do_load(S, addr, size))
            ELSE ax_panic(S)
       [] o \in {"ST", "STI"} -> do_store(S, S.regs.gpi[op.reg_a], addr, size)
       [] o \in {"FST", "FSTI"} -> do_store(S, S.regs.gpf[op.reg_a], addr, size)
       [] OTHER -> ax_panic(S)

----------------------------------------------------------------------------
(* AxCore::execute_bru                                                     *)

relative23(op, imm24) ==
  XorW(sext_bitsize(W(op.bru_imm23), 23), Shl(W(imm24), 22))

relative24(op, imm24) ==
  XorW(sext_bitsize(W(op.bru_imm24), 24), Shl(W(imm24), 23))

absolute24(op, imm24) == OrW(W(op.bru_imm24), Shl(W(imm24), 24))

\* a link value that forgets the second word of the bundle
lr_value_unbundled(S, op) == Cast(Add(S.regs.pc, One), PCLEN)

\* m_regs.pc + 1 + is_bundle, on uint32_t
lr_value(S, op) ==
  Cast(Add(Add(S.regs.pc, One), BoolW(is_bundle(op))), PCLEN)

add_pc(S, value) ==
  [S EXCEPT !.regs.pc = Cast(Add(S.regs.pc, value), PCLEN)]

z_mask(S) == HasFlag(S.regs.fr, Z_MASK)
c_mask(S) == HasFlag(S.regs.fr, C_MASK)
n_mask(S) == HasFlag(S.regs.fr, N_MASK)
o_mask(S) == HasFlag(S.regs.fr, O_MASK)
u_mask(S) == HasFlag(S.regs.fr, U_MASK)

\* a signed "less than" that looks at N alone
bru_condition_ignoring_o(S, o) ==
  CASE o = "BEQ" -> z_mask(S) /\ ~u_mask(S)
    [] o = "BNE" -> ~z_mask(S) /\ ~u_mask(S)
    [] o = "BLT" -> n_mask(S) /\ ~u_mask(S)
    [] o = "BGE" -> (z_mask(S) \/ ~n_mask(S)) /\ ~u_mask(S)
    [] o = "BLTU" -> c_mask(S) \/ u_mask(S)
    [] o = "BGEU" -> z_mask(S) \/ ~c_mask(S) \/ u_mask(S)
    [] o = "BEQU" -> z_mask(S) \/ u_mask(S)
    [] o = "BNEU" -> ~z_mask(S) \/ u_mask(S)

\* the condition under which a conditional branch is taken
bru_condition(S, o) ==
  CASE o = "BEQ" -> z_mask(S) /\ ~u_mask(S)
    [] o = "BNE" -> ~z_mask(S) /\ ~u_mask(S)
    [] o = "BLT" -> (n_mask(S) # o_mask(S)) /\ ~u_mask(S)
    [] o = "BGE" -> (z_mask(S) \/ n_mask(S) = o_mask(S)) /\ ~u_mask(S)
    [] o = "BLTU" -> c_mask(S) \/ u_mask(S)
    [] o = "BGEU" -> z_mask(S) \/ ~c_mask(S) \/ u_mask(S)
    [] o = "BEQU" -> z_mask(S) \/ u_mask(S)
    [] o = "BNEU" -> ~z_mask(S) \/ u_mask(S)

ConditionalBranches == {"BEQ", "BNE", "BLT", "BGE", "BLTU", "BGEU", "BEQU", "BNEU"}

execute_bru(S, op, imm24) ==
  LET o == op.operation
  IN CASE o \in ConditionalBranches ->
            IF bru_condition(S, o) THEN add_pc(S, relative23(op, imm24)) ELSE S
       [] o = "BRA" -> add_pc(S, relative24(op, imm24))
       [] o = "CALLR" ->
            add_pc(SetGpi(S, 31, lr_value(S, op)), relative24(op, imm24))
       [] o = "JUMP" ->
            [S EXCEPT !.regs.pc = Cast(absolute24(op, imm24), PCLEN)]
       [] o = "CALL" ->
            [SetGpi(S, 31, lr_value(S, op))
               EXCEPT !.regs.pc = Cast(absolute24(op, imm24), PCLEN)]
       [] o = "INDIRECTCALLR" ->
            LET S1 == SetGpi(S, op.reg_a, lr_value(S, op))
            IN add_pc(S1, S1.regs.gpi[op.reg_b])
       [] o = "INDIRECTCALL" ->
            LET S1 == SetGpi(S, op.reg_a, lr_value(S, op))
            IN [S1 EXCEPT !.regs.pc = Cast(S1.regs.gpi[op.reg_b], PCLEN)]
       [] OTHER -> ax_panic(S)

----------------------------------------------------------------------------
(* Floating-point values are the IEEE-754 bit patterns the registers hold: *)
(* fsize 0 is float (8 exponent bits, 23 mantissa bits), fsize 1 is double *)
(* (11 exponent bits, 52 mantissa bits).                                   *)

FpBits(fsize) == IF fsize = 0 THEN 32 ELSE 64

\* to_floating_point<T>: the low sizeof(T) bytes of the register
to_floating_point(val, fsize) == Cast(val, FpBits(fsize))

\* from_floating_point<T>: the bytes of the value, zero-extended
from_floating_point(val, fsize) == Cast(val, FpBits(fsize))

FpSign(x, fsize) == SignBit(x, FpBits(fsize))
FpMagnitude(x, fsize) ==
  [Cast(x, FpBits(fsize)) EXCEPT ![FpBits(fsize) \div 8] = @ % (BYTE \div 2)]
FpExponent(x, fsize) ==
  IF fsize = 0 THEN 2 * (x[4] % 128) + (x[3] \div 128)
  ELSE 16 * (x[8] % 128) + (x[7] \div 16)
FpMaxExponent(fsize) == IF fsize = 0 THEN 255 ELSE 2047
FpMantissaZero(x, fsize) ==
  IF fsize = 0 THEN x[1] = 0 /\ x[2] = 0 /\ x[3] % 128 = 0
  ELSE (\A i \in 1..6 : x[i] = 0) /\ x[7] % 16 = 0
FpIsZero(x, fsize) == FpMagnitude(x, fsize) = Zero
FpIsNaN(x, fsize) ==
  FpExponent(x, fsize) = FpMaxExponent(fsize) /\ ~FpMantissaZero(x, fsize)

\* is_real: std::fpclassify gives FP_ZERO or FP_NORMAL
is_real(x, fsize) ==
  \/ FpIsZero(x, fsize)
  \/ FpExponent(x, fsize) # 0 /\ FpExponent(x, fsize) # FpMaxExponent(fsize)

\* left == right and left < right on floating-point values
FpEq(l, r, fsize) ==
  /\ ~FpIsNaN(l, fsize) /\ ~FpIsNaN(r, fsize)
  /\ \/ l = r
     \/ FpIsZero(l, fsize) /\ FpIsZero(r, fsize)

FpLt(l, r, fsize) ==
  /\ ~FpIsNaN(l, fsize) /\ ~FpIsNaN(r, fsize)
  /\ ~(FpIsZero(l, fsize) /\ FpIsZero(r, fsize))
  /\ CASE FpSign(l, fsize) /\ ~FpSign(r, fsize) -> TRUE
       [] ~FpSign(l, fsize) /\ FpSign(r, fsize) -> FALSE
       [] ~FpSign(l, fsize) /\ ~FpSign(r, fsize) ->
            Ult(FpMagnitude(l, fsize), FpMagnitude(r, fsize))
       [] OTHER -> Ult(FpMagnitude(r, fsize), FpMagnitude(l, fsize))

\* a compare that keeps the other flags when an operand is not real
do_fcmp_keeping_flags(fr, left, right, fsize) ==
  IF ~is_real(left, fsize) \/ ~is_real(right, fsize)
  THEN SetFlag(fr, U_MASK, TRUE)
  ELSE LET f1 == SetFlag(fr, Z_MASK, FpEq(left, right, fsize))
           f2 == SetFlag(SetFlag(f1, N_MASK, FpLt(left, right, fsize)),
                         C_MASK, FpLt(left, right, fsize))
       IN SetFlag(SetFlag(f2, U_MASK, FALSE), O_MASK, FALSE)

do_fcmp(fr, left, right, fsize) ==
  IF ~is_real(left, fsize) \/ ~is_real(right, fsize) THEN U_MASK
  ELSE LET f1 == SetFlag(fr, Z_MASK, FpEq(left, right, fsize))
           f2 == SetFlag(SetFlag(f1, N_MASK, FpLt(left, right, fsize)),
                         C_MASK, FpLt(left, right, fsize))
       IN SetFlag(SetFlag(f2, U_MASK, FALSE), O_MASK, FALSE)

----------------------------------------------------------------------------
(* AxCore::execute_fpu                                                     *)

\* std::numeric_limits<T>::quiet_NaN(): 0x7FC00000 and 0x7FF8000000000000
quiet_NaN(fsize) ==
  IF fsize = 0 THEN <<0, 0, 192, 127, 0, 0, 0, 0>>
  ELSE <<0, 0, 0, 0, 0, 0, 248, 127>>

\* writeback of a floating-point value: a value that is not real decays to NaN
fpu_writeback(S, op, slot, value, fsize) ==
  LET v == IF is_real(value, fsize) THEN from_floating_point(value, fsize)
           ELSE quiet_NaN(fsize)
      S1 == SetGpf(S, REG_BF1 + slot, v)
  IN IF op.reg_a # REG_ACC THEN SetGpf(S1, op.reg_a, v) ELSE S1

\* writeback of an integer value (int64_t, uint64_t): fpclassify sees it as the
\* double of the same value, zero or normal, so its bits are stored unchanged
fpu_writeback_int(S, op, slot, value) ==
  LET S1 == SetGpf(S, REG_BF1 + slot, value)
  IN IF op.reg_a # REG_ACC THEN SetGpf(S1, op.reg_a, value) ELSE S1

fpu_read_reg(S, slot, reg) ==
  IF reg = REG_ACC THEN S.regs.gpf[REG_BF1 + slot] ELSE S.regs.gpf[reg]

\* The operations whose switch on size has no break: FADD, FSUB, FMUL, FNMUL,
\* FMIN, FMAX, FNEG, FABS, FE, FEN, FSLT
FpuFallThrough ==
  {"FADD", "FSUB", "FMUL", "FNMUL", "FMIN", "FMAX", "FNEG", "FABS", "FE", "FEN", "FSLT"}

execute_fpu(S, op, slot, imm24, fpres) ==
  LET o == op.operation
      left == fpu_read_reg(S, slot, op.reg_b)
      right == fpu_read_reg(S, slot, op.reg_c)
  IN CASE o \in FpuFallThrough ->
            \* every case falls through to the panic of the default label; the
            \* arithmetic result written before it is the value fpres
            IF op.size \in {0, 1, 3} /\ ~(o \in {"FE", "FEN", "FSLT"} /\ op.size = 3)
            THEN ax_panic(fpu_writeback(S, op, slot, fpres, 1))
            ELSE ax_panic(S)
       [] o = "FCMOVE" ->
            IF left # Zero THEN fpu_writeback_int(S, op, slot, right) ELSE S
       [] o = "FMOVE" -> fpu_writeback_int(S, op, slot, left)
       [] o = "FCMP" ->
            IF op.size \in {0, 1}
            THEN [S EXCEPT !.regs.fr =
                    do_fcmp(@, to_floating_point(left, op.size),
                            to_floating_point(right, op.size), op.size)]
            ELSE ax_panic(S)
       [] OTHER -> ax_panic(S)

----------------------------------------------------------------------------
(* AxCore::execute_efu                                                     *)

EfuArithmetic == {"FDIV", "FATAN2", "FSQRT", "FSIN", "FATAN", "FEXP", "INVSQRT"}

execute_efu(S, op, imm24, fpres) ==
  LET o == op.operation
  IN CASE o \in EfuArithmetic ->
            IF op.size \in {0, 1}
            THEN [S EXCEPT !.regs.efu_q = from_floating_point(fpres, op.size)]
            ELSE ax_panic(S)
       [] o = "SETEF" -> [S EXCEPT !.regs.efu_q = S.regs.gpf[op.reg_a]]
       [] o = "GETEF" -> SetGpf(S, op.reg_a, S.regs.efu_q)
       [] OTHER -> ax_panic(S)

----------------------------------------------------------------------------
(* AxCore::execute_cu and execute_vu                                       *)

\* 0x80000000
SYSCALL_VECTOR == <<0, 0, 0, 128, 0, 0, 0, 0>>

ir_value(S, op) ==
  Cast(Add(Add(S.regs.pc, One), BoolW(is_bundle(op))), PCLEN)

\* a control unit whose RETI also clears the flags
execute_cu_clearing_fr(S, op, imm24) ==
  LET o == op.operation
  IN CASE o = "SYSCALL" ->
            [S EXCEPT !.regs.ir = ir_value(S, op),
                      !.regs.pc = SYSCALL_VECTOR,
                      !.syscall = 1]
       [] o = "RETI" -> [S EXCEPT !.regs.pc = S.regs.ir, !.regs.fr = 0]
       [] OTHER -> ax_panic(S)

execute_cu(S, op, imm24) ==
  LET o == op.operation
  IN CASE o = "SYSCALL" ->
            [S EXCEPT !.regs.ir = ir_value(S, op),
                      !.regs.pc = SYSCALL_VECTOR,
                      !.syscall = 1]
       [] o = "RETI" -> [S EXCEPT !.regs.pc = S.regs.ir]
       [] OTHER -> ax_panic(S)

execute_vu(S, op, imm24) == ax_panic(S)

----------------------------------------------------------------------------
(* AxCore::execute_unit and AxCore::execute                                *)

\* the values the build and the floating-point unit leave open
\* (an undefined division traps unless the host says otherwise)
Env(build, ub, fpres) ==
  [ub |-> ub, build |-> build, fpres |-> fpres, divz |-> "trap"]

\* an issue number that forgets the slot
issue_id_of_unit(opcode, slot) == opcode.unit

issue_id(opcode, slot) == slot * 8 + opcode.unit

execute_unit(S, opcode, slot, imm24, env) ==
  LET S0 == SetGpf(SetGpi(S, REG_ZERO, Zero), REG_ZERO, Zero)
      issue == issue_id(opcode, slot)
  IN CASE issue \in {0, 1, 8, 9} ->
            execute_alu(S0, opcode, slot, imm24, env.build, env.ub)
       [] issue \in {2, 10} -> execute_lsu(S0, opcode, slot, imm24)
       [] issue \in {3, 11} -> execute_fpu(S0, opcode, slot, imm24, env.fpres)
       [] issue = 5 -> execute_efu(S0, opcode, imm24, env.fpres)
       [] issue = 6 -> execute_mdu(S0, opcode, imm24, env.divz)
       [] issue = 7 -> execute_bru(S0, opcode, imm24)
       [] issue = 13 -> execute_cu(S0, opcode, imm24)
       [] issue = 14 -> execute_vu(S0, opcode, imm24)
       [] OTHER -> ax_panic(S0)

\* an extension immediate taken from any MOVEIX, bundled or not
execute_imm24_any_moveix(first, second) ==
  IF is_moveix(second) THEN second.moveix_imm24 ELSE 0

execute_imm24(first, second) ==
  IF is_bundle(first) /\ is_moveix(second) THEN second.moveix_imm24 ELSE 0

\* the state execute(first, second) leaves; a panic ends it where it happens
execute_state(S, first, second, env) ==
  LET imm24 == execute_imm24(first, second)
      S1 == execute_unit(S, first, 0, imm24, env)
  IN IF S1.panic THEN S1
     ELSE IF is_bundle(first) /\ ~is_moveix(second)
          THEN execute_unit(S1, second, 1, imm24, env)
          ELSE S1

\* a return value that forgets the second word of a bundle
execute_result_single(old_pc, S2, first) ==
  IF old_pc # S2.regs.pc THEN 0 ELSE 1

\* the value execute(first, second) returns
execute_result(old_pc, S2, first) ==
  IF old_pc # S2.regs.pc THEN 0
  ELSE IF is_bundle(first) THEN 2 ELSE 1

----------------------------------------------------------------------------
(* The call execute(first, second), made by a host (a test, or cycle())    *)

MaxSteps == 2

NoCall ==
  [imm24 |-> 0, first |-> Opcode(0, "MOVEIX"), second |-> Opcode(0, "MOVEIX"),
   old_pc |-> Zero, called |-> FALSE, ret |-> -1,
   prev_called |-> FALSE, prev_first |-> Opcode(0, "MOVEIX"),
   prev_second |-> Opcode(0, "MOVEIX")]

Execute(first, second, env) ==
  /\ ~panicked
  /\ steps < MaxSteps
  /\ \E S2 \in {execute_state(Core(m_regs, m_syscall, m_memory, FALSE),
                              first, second, env)} :
        /\ m_regs' = S2.regs
        /\ m_syscall' = S2.syscall
        /\ m_memory' = S2.mem
        /\ panicked' = S2.panic
        /\ last' = [imm24 |-> execute_imm24(first, second),
                    first |-> first, second |-> second,
                    old_pc |-> m_regs.pc, called |-> TRUE,
                    ret |-> IF S2.panic THEN -1
                            ELSE execute_result(m_regs.pc, S2, first),
                    prev_called |-> last.called, prev_first |-> last.first,
                    prev_second |-> last.second]
  /\ steps' = steps + 1
  /\ UNCHANGED <<m_wram, host>>

----------------------------------------------------------------------------
(* Instruction words the hosts below hand to execute()                     *)

AluA == {"MOVEIX", "MOVEI", "EXT", "INS", "MAX", "UMAX", "MIN", "UMIN",
         "ADDS", "SUBS", "CMP", "BIT", "TEST", "TESTFR"}

AluUnit(o) == IF o \in AluA THEN AX_UNIT_ALU_A ELSE AX_UNIT_ALU_B

AluReg(o, size, a, b, c) ==
  [Opcode(AluUnit(o), o) EXCEPT !.size = size, !.reg_a = a, !.reg_b = b, !.reg_c = c]

AluImm(o, size, a, b, imm9) ==
  [Opcode(AluUnit(o), o) EXCEPT !.size = size, !.reg_a = a, !.reg_b = b,
                                !.alu_has_imm = TRUE, !.alu_imm9 = imm9]

MoveIx(imm24) == [Opcode(AX_UNIT_ALU_A, "MOVEIX") EXCEPT !.moveix_imm24 = imm24]

Noop == Opcode(AX_UNIT_ALU_A, "MOVEIX")

FpuReg(o, size, a, b, c) ==
  [Opcode(AX_UNIT_FPU, o) EXCEPT !.size = size, !.reg_a = a, !.reg_b = b, !.reg_c = c]

MoveI(a, imm18) ==
  [Opcode(AX_UNIT_ALU_A, "MOVEI") EXCEPT !.reg_a = a, !.alu_move_imm = imm18]

Bra(imm24) == [Opcode(AX_UNIT_BRU, "BRA") EXCEPT !.bru_imm24 = imm24]

Jump(imm24) == [Opcode(AX_UNIT_BRU, "JUMP") EXCEPT !.bru_imm24 = imm24]

Call(o, imm24) == [Opcode(AX_UNIT_BRU, o) EXCEPT !.bru_imm24 = imm24]

IndirectCall(o, a, b) == [Opcode(AX_UNIT_BRU, o) EXCEPT !.reg_a = a, !.reg_b = b]

\* a control-unit instruction: unit 5 in the second word of a bundle
Cu(o) == Opcode(AX_UNIT_EFU_CU, o)

Ins(a, b, imm1, imm2) ==
  [Opcode(AX_UNIT_ALU_A, "INS") EXCEPT !.reg_a = a, !.reg_b = b,
                                       !.ext_ins_imm1 = imm1, !.ext_ins_imm2 = imm2]

LdImm(size, a, b, imm10) ==
  [Opcode(AX_UNIT_LSU, "LDI") EXCEPT !.size = size, !.reg_a = a, !.reg_b = b,
                                     !.lsu_imm10 = imm10]

Lsu(o, size, a, b, c, shift, imm10) ==
  [Opcode(AX_UNIT_LSU, o) EXCEPT !.size = size, !.reg_a = a, !.reg_b = b,
                                 !.reg_c = c, !.lsu_imm10 = imm10,
                                 !.lsu_shift = shift]

SetMd(a, pq) == [Opcode(AX_UNIT_MDU_VU, "SETMD") EXCEPT !.reg_a = a, !.mdu_pq = pq]

GetMd(a, pq) == [Opcode(AX_UNIT_MDU_VU, "GETMD") EXCEPT !.reg_a = a, !.mdu_pq = pq]

GetEf(a) == [Opcode(AX_UNIT_EFU_CU, "GETEF") EXCEPT !.reg_a = a]

Brc(o, imm23) == [Opcode(AX_UNIT_BRU, o) EXCEPT !.bru_imm23 = imm23]

Bundled(op) == [op EXCEPT !.bundle = TRUE]

DefaultEnv == Env("gnu", "wrap", Zero)

\* the build in which a division the language leaves undefined ends as fault
EnvDiv(fault) == [DefaultEnv EXCEPT !.divz = fault]

AluShifted(o, size, a, b, c, shift) ==
  [AluReg(o, size, a, b, c) EXCEPT !.alu_shift = shift]

Mdu(o, size, b, c) ==
  [Opcode(AX_UNIT_MDU_VU, o) EXCEPT !.size = size, !.reg_b = b, !.reg_c = c]

Efu(o, size) == [Opcode(AX_UNIT_EFU_CU, o) EXCEPT !.size = size]

----------------------------------------------------------------------------
(* AxCore::cycle and AxCore::syscall, and the drivers that call them       *)

\* The instruction memory cycle() reads through m_wram_begin: WramWords words,
\* zero after construction (the word 0 is a MOVEIX without bundle flag).
WramWords == 8

NoProgram == [a \in 0..(WramWords - 1) |-> Noop]

\* a program image copied to the start of the instruction memory
LoadImage(image) ==
  [a \in 0..(WramWords - 1) |-> IF a < Len(image) THEN image[a + 1] ELSE Noop]

\* the words a read past the end of the instruction memory may give
StrayWords == {Noop, Bundled(Noop), Cu("SYSCALL")}

\* m_regs.pc & 0x7FFFFFFF
real_pc(pc) == [pc EXCEPT ![4] = @ % 128]

\* m_wram_begin[addr]: the word stored there, or any word when addr is outside
\* the memory
Fetch(wram, addr) ==
  IF IsSmall(addr) /\ ToNat(addr) < WramWords THEN {wram[ToNat(addr)]}
  ELSE StrayWords

\* what cycle() does once execute(opcode1, opcode2) has left S2: the counters
\* and the PC advance by the value execute returned
cycle_after(S2, old_pc, opcode1) ==
  IF S2.panic THEN S2
  ELSE [S2 EXCEPT
          !.regs.cc = Cast(Add(@, One), 32),
          !.regs.ic = Cast(Add(@, W(execute_result(old_pc, S2, opcode1))), 32),
          !.regs.pc = Cast(Add(@, W(execute_result(old_pc, S2, opcode1))), PCLEN)]

\* the state cycle() leaves after execute(opcode1, opcode2)
cycle_state(S, opcode1, opcode2, env) ==
  cycle_after(execute_state(S, opcode1, opcode2, env), S.regs.pc, opcode1)

\* What the caller-supplied handler of syscall() does to the registers: a
\* handler that only looks ("idle"), and one that leaves a result in GPR 1 as
\* execute_syscall does ("reply").
Handlers == {"idle", "reply"}

run_handler(regs, h) == IF h = "reply" THEN [regs EXCEPT !.gpi[1] = W(4)] ELSE regs

\* a gate that reports the syscall and leaves the flag set
syscall_keeping_flag(S, h) ==
  IF S.syscall = 0 THEN <<S, FALSE>>
  ELSE <<[S EXCEPT !.regs = run_handler(@, h)], TRUE>>

\* AxCore::syscall(handler): the state it leaves and the value it returns
syscall(S, h) ==
  IF S.syscall = 0 THEN <<S, FALSE>>
  ELSE <<[S EXCEPT !.regs = run_handler(@, h), !.syscall = 0], TRUE>>

\* The driver: who calls cycle() and syscall() ("test": a host that calls them
\* in any order; "altairx": AltairX::run; "runner": the VMRunner), where its
\* loop stands, the runner's status, what the main thread does with the
\* syscall signal ("idle", "posted": the event is queued, "in_slot": the slot
\* is running), the number of handler invocations, what the last syscall()
\* returned since the last cycle, and the registers as they were when the
\* handler was last invoked.  For the VMRunner it also holds the breakpoints
\* of the core (bps), what the worker's last call of hit_breakpoint() returned
\* (hit), the counter i of Worker::start (turn), and the last of the signals
\* coreError and corePanic the worker emitted with the code it carried.
NoHost ==
  [driver |-> "none", at |-> "idle", status |-> "Stopped", main |-> "idle",
   handled |-> 0, taken |-> "none", parked |-> RegisterSet,
   start |-> "none", api |-> "none", result |-> "none", seq |-> 0, late |-> 0,
   bps |-> {}, hit |-> "none", turn |-> 0, signal |-> "none", code |-> 0]

\* the call cycle(), after which the driver is in state h2
Cycle(env, h2) ==
  /\ ~panicked
  /\ steps < MaxSteps
  /\ \E opcode1 \in Fetch(m_wram, real_pc(m_regs.pc)),
        opcode2 \in Fetch(m_wram, Add(real_pc(m_regs.pc), One)) :
       \E S2 \in {execute_state(Core(m_regs, m_syscall, m_memory, FALSE),
                                opcode1, opcode2, env)} :
       \E S3 \in {cycle_after(S2, m_regs.pc, opcode1)} :
         /\ m_regs' = S3.regs
         /\ m_syscall' = S3.syscall
         /\ m_memory' = S3.mem
         /\ panicked' = S3.panic
         /\ last' = [imm24 |-> execute_imm24(opcode1, opcode2),
                     first |-> opcode1, second |-> opcode2,
                     old_pc |-> m_regs.pc, called |-> TRUE,
                     ret |-> IF S2.panic THEN -1
                             ELSE execute_result(m_regs.pc, S2, opcode1),
                     prev_called |-> last.called, prev_first |-> last.first,
                     prev_second |-> last.second]
  /\ steps' = steps + 1
  /\ host' = h2
  /\ UNCHANGED m_wram

\* the call syscall(handler) made by a host between cycles
Syscall(h) ==
  /\ ~panicked
  /\ host.driver = "test"
  /\ \E r \in {syscall(Core(m_regs, m_syscall, m_memory, FALSE), h)} :
       /\ m_regs' = r[1].regs
       /\ m_syscall' = r[1].syscall
       /\ host' = [host EXCEPT !.taken = IF r[2] THEN "true" ELSE "false",
                               !.handled = IF r[2] THEN @ + 1 ELSE @,
                               !.parked = IF r[2] THEN m_regs ELSE @]
  /\ UNCHANGED <<m_memory, panicked, last, steps, m_wram>>

----------------------------------------------------------------------------
(* AltairX::run: the loop  while(error() == 0) { cycle(); syscall(...); }   *)
(* with the handler execute_syscall                                        *)

RunCycle ==
  /\ host.driver = "altairx"
  /\ host.at = "cycle"
  /\ Cycle(DefaultEnv, [host EXCEPT !.at = "gate", !.taken = "none"])

\* m_core.syscall(execute_syscall, m_core): GPR 1 is the syscall id; exit (1)
\* ends the process inside the handler, stdio_read (2) and stdio_write (3)
\* transfer n bytes between the memory at GPR 3 and a file and return n in
\* GPR 1, any other id panics.
RunSyscall ==
  /\ host.driver = "altairx"
  /\ host.at = "gate"
  /\ ~panicked
  /\ LET id == m_regs.gpi[1]
         addr == m_regs.gpi[3]
         called == [host EXCEPT !.handled = @ + 1, !.parked = m_regs]
     IN IF m_syscall = 0
        THEN /\ host' = [host EXCEPT !.at = "cycle", !.taken = "false"]
             /\ UNCHANGED <<m_regs, m_syscall, m_memory, panicked>>
        ELSE IF id = W(1)
        THEN /\ host' = [called EXCEPT !.at = "exited"]
             /\ UNCHANGED <<m_regs, m_syscall, m_memory, panicked>>
        ELSE IF id \in {W(2), W(3)} /\ MemInRange(addr, 1)
        THEN \E n \in {0, 1} :
               /\ n <= ToNat(m_regs.gpi[4])
               /\ m_regs' = [m_regs EXCEPT !.gpi[1] = W(n)]
               /\ m_memory' = IF id = W(2) /\ n = 1
                               THEN [m_memory EXCEPT ![ToNat(addr)] = 65]
                               ELSE m_memory
               /\ m_syscall' = 0
               /\ host' = [called EXCEPT !.at = "cycle", !.taken = "true"]
               /\ UNCHANGED panicked
        ELSE /\ panicked' = TRUE
             /\ host' = called
             /\ UNCHANGED <<m_regs, m_syscall, m_memory>>
  /\ UNCHANGED <<last, steps, m_wram>>

----------------------------------------------------------------------------
(* VMRunner: the worker thread runs Worker::start; the main thread runs    *)
(* the slots connected to the runner's signals.                            *)

\* The connection of Worker::syscall to VMRunner::syscall blocks the emitting
\* thread until the slots have returned (Qt::BlockingQueuedConnection).
syscall_connection_queued == FALSE

syscall_connection_blocks == TRUE

\* AxCore::error(): m_error is 0 after construction and nothing assigns it
error == 0

\* a store of the status that is lost
setStatus_lost(old, status) == old

\* Worker::setStatus(status): m_status.exchange(status), whatever it held
setStatus(old, status) == status

\* real_pc * 4ull
pc_addr(pc) == Shl(real_pc(pc), 2)

\* a lookup that leaves out the entries that are not enabled
hit_enabled_breakpoint(bps, pc) ==
  {bp \in bps : bp.address = pc_addr(pc) /\ bp.enabled}

\* AxCore::hit_breakpoint(): the entry whose address is the byte address of
\* PC, enabled or not, or none (the empty set)
hit_breakpoint(bps, pc) ==
  IF bps = {} THEN {} ELSE {bp \in bps : bp.address = pc_addr(pc)}

\* the local bp of the worker's loop, as host.hit keeps it
HitName(hit) ==
  IF hit = {} THEN "none"
  ELSE IF \E bp \in hit : bp.enabled THEN "enabled" ELSE "disabled"

\* an exchange that does not compare
exchangeStatus(status, expected, desired) == <<desired, "true">>

\* m_status.compare_exchange_strong(expected, desired): <<status, result>>
compareExchangeStatus(status, expected, desired) ==
  IF status = expected THEN <<desired, "true">> ELSE <<status, "false">>

\* the worker thread is inside the lock_guard of Worker::start
WorkerHoldsMutex == host.at \in {"poll", "cycle", "gate", "blocked", "resume"}

\* Worker::start(paused), queued to the worker thread by the signal
\* VMRunner::start and run when the thread is not inside an earlier call: the
\* compare-exchange on the status, and the return when it fails
WorkerStart ==
  /\ host.driver = "runner"
  /\ host.at \in {"idle", "left"}
  /\ host.start # "none"
  /\ LET cas == compareExchangeStatus(host.status, "Ready",
                                      IF host.start = "true" THEN "Paused"
                                      ELSE "Running")
     IN host' = [host EXCEPT !.start = "none", !.status = cas[1],
                             !.at = IF cas[2] = "true" THEN "enter" ELSE "left",
                             !.late = IF cas[1] = "Running" THEN 0 ELSE @]
  /\ UNCHANGED <<m_regs, m_syscall, m_memory, panicked, last, steps, m_wram>>

\* std::lock_guard lock{m_threadRunningMutex} in Worker::start; the main
\* thread holds the mutex only inside stop(true), which releases it at once
WorkerEnter ==
  /\ host.driver = "runner"
  /\ host.at = "enter"
  /\ host' = [host EXCEPT !.at = "poll", !.turn = 0]
  /\ UNCHANGED <<m_regs, m_syscall, m_memory, panicked, last, steps, m_wram>>

\* the counter i of Worker::start is followed up to MaxTurns; the values above
\* it are not told apart
MaxTurns == 2

\* the head of the worker's loop: coreError(i++), then leave when stopped,
\* sleep and come back when paused, run a pass of cycles when running, panic
\* on any other status
WorkerPoll ==
  /\ host.driver = "runner"
  /\ host.at = "poll"
  /\ ~panicked
  /\ LET emitted == [host EXCEPT !.signal = "coreError", !.code = host.turn,
                                 !.turn = IF @ < MaxTurns THEN @ + 1 ELSE @]
     IN host' = IF host.status = "Stopped" THEN [emitted EXCEPT !.at = "left"]
                ELSE IF host.status = "Running" THEN [emitted EXCEPT !.at = "cycle"]
                ELSE emitted
  /\ panicked' = (host.status = "Ready")
  /\ UNCHANGED <<m_regs, m_syscall, m_memory, last, steps, m_wram>>

\* host.late counts the cycles begun since the status was last Running, up to
\* MaxLate
MaxLate == 2

\* one turn of the inner loop up to the end of m_core->cycle(): with an error
\* on the core the pass ends, coreError carries the error and the status is
\* set to Stopped; at an enabled breakpoint the status is set to Paused and
\* the pass ends; otherwise cycle() runs.  A pass of 8192 cycles is longer
\* than any run followed here.
WorkerCycle ==
  /\ host.driver = "runner"
  /\ host.at = "cycle"
  /\ LET bp == hit_breakpoint(host.bps, m_regs.pc)
     IN IF error # 0
        THEN /\ ~panicked
             /\ host' = [host EXCEPT !.at = "poll", !.signal = "coreError",
                                     !.code = error,
                                     !.status = setStatus(@, "Stopped")]
             /\ UNCHANGED <<m_regs, m_syscall, m_memory, panicked, last, steps,
                            m_wram>>
        ELSE IF \E b \in bp : b.enabled
        THEN /\ ~panicked
             /\ host' = [host EXCEPT !.at = "poll", !.hit = HitName(bp),
                                     !.status = setStatus(@, "Paused")]
             /\ UNCHANGED <<m_regs, m_syscall, m_memory, panicked, last, steps,
                            m_wram>>
        ELSE Cycle(DefaultEnv,
                   [host EXCEPT !.at = "gate", !.taken = "none",
                                !.hit = HitName(bp),
                                !.late = IF host.status = "Running" \/ @ = MaxLate
                                         THEN @ ELSE @ + 1])

\* catch(const std::exception& e) of Worker::start, reached from the ax_panic
\* of cycle() or of the status switch: corePanic is emitted, the status is
\* set to Stopped and start() returns, which releases the mutex
WorkerCatch ==
  /\ host.driver = "runner"
  /\ host.at \in {"poll", "gate"}
  /\ panicked
  /\ panicked' = FALSE
  /\ host' = [host EXCEPT !.at = "left", !.signal = "corePanic", !.code = 0,
                          !.status = setStatus(@, "Stopped")]
  /\ UNCHANGED <<m_regs, m_syscall, m_memory, last, steps, m_wram>>

\* m_core->syscall(&Worker::syscall, this) up to the emission of the signal:
\* without a pending syscall it returns false and the loop goes on; with one
\* the handler emits Worker::syscall and waits for the slots
WorkerGate ==
  /\ host.driver = "runner"
  /\ host.at = "gate"
  /\ ~panicked
  /\ host' = IF m_syscall = 0
             THEN [host EXCEPT !.at = "cycle", !.taken = "false"]
             ELSE [host EXCEPT !.at = IF syscall_connection_blocks
                                      THEN "blocked" ELSE "resume",
                               !.main = IF @ = "loading" THEN "loading_posted"
                                        ELSE "posted",
                               !.handled = @ + 1,
                               !.parked = m_regs]
  /\ UNCHANGED <<m_regs, m_syscall, m_memory, panicked, last, steps, m_wram>>

\* what a slot connected to VMRunner::syscall may call on the runner
SlotCalls == {"stop", "pause", "none"}

\* the main thread delivers the signal: the slot runs and calls stop(),
\* pause() or nothing
MainSlot ==
  /\ host.driver = "runner"
  /\ host.main = "posted"
  /\ \E c \in SlotCalls :
       host' = [host EXCEPT
                  !.main = "in_slot",
                  !.status = IF c = "stop" THEN "Stopped"
                             ELSE IF c = "pause" /\ @ = "Running" THEN "Paused"
                             ELSE @]
  /\ UNCHANGED <<m_regs, m_syscall, m_memory, panicked, last, steps, m_wram>>

\* the slot returns, which releases a worker that waits for it
MainSlotReturn ==
  /\ host.driver = "runner"
  /\ host.main = "in_slot"
  /\ host' = [host EXCEPT !.main = "idle",
                          !.at = IF @ = "blocked" THEN "resume" ELSE @]
  /\ UNCHANGED <<m_regs, m_syscall, m_memory, panicked, last, steps, m_wram>>

\* VMRunner::resume() called from the main thread outside a slot
MainResume ==
  /\ host.driver = "runner"
  /\ host.main = "idle"
  /\ host.status = "Paused"
  /\ host' = [host EXCEPT !.status = "Running", !.late = 0]
  /\ UNCHANGED <<m_regs, m_syscall, m_memory, panicked, last, steps, m_wram>>

\* the rest of m_core->syscall and of the loop turn: the flag is cleared, true
\* is returned, and the pass ends if the status is no longer Running
WorkerResume ==
  /\ host.driver = "runner"
  /\ host.at = "resume"
  /\ m_syscall' = 0
  /\ host' = [host EXCEPT !.taken = "true",
                          !.at = IF host.status # "Running" THEN "poll" ELSE "cycle"]
  /\ UNCHANGED <<m_regs, m_memory, panicked, last, steps, m_wram>>

----------------------------------------------------------------------------
(* The calls the main thread makes on the VMRunner outside a slot.  host.api *)
(* and host.result keep the last call and what it returned, host.seq      *)
(* changes with every call.                                                *)

Called(c, result) == [host EXCEPT !.api = c, !.result = result, !.seq = 1 - @]

\* emit VMRunner::start(paused): the call of Worker::start is queued to the
\* worker thread
ApiStart ==
  /\ host.driver = "runner"
  /\ host.main = "idle"
  /\ host.start = "none"
  /\ \E paused \in {"true", "false"} :
       host' = [Called("start", "none") EXCEPT !.start = paused]
  /\ UNCHANGED <<m_regs, m_syscall, m_memory, panicked, last, steps, m_wram>>

\* VMRunner::pause()
ApiPause ==
  /\ host.driver = "runner"
  /\ host.main = "idle"
  /\ LET cas == compareExchangeStatus(host.status, "Running", "Paused")
     IN host' = [Called("pause", cas[2]) EXCEPT !.status = cas[1]]
  /\ UNCHANGED <<m_regs, m_syscall, m_memory, panicked, last, steps, m_wram>>

\* VMRunner::resume()
ApiResume ==
  /\ host.driver = "runner"
  /\ host.main = "idle"
  /\ LET cas == compareExchangeStatus(host.status, "Paused", "Running")
     IN host' = [Called("resume", cas[2])
                   EXCEPT !.status = cas[1],
                          !.late = IF cas[1] = "Running" THEN 0 ELSE @]
  /\ UNCHANGED <<m_regs, m_syscall, m_memory, panicked, last, steps, m_wram>>

\* VMRunner::stop(): Worker::stop(false)
ApiStop ==
  /\ host.driver = "runner"
  /\ host.main = "idle"
  /\ host' = [Called("stop", "none") EXCEPT !.status = "Stopped"]
  /\ UNCHANGED <<m_regs, m_syscall, m_memory, panicked, last, steps, m_wram>>

\* a load function up to the lock of stop(true): the status is Stopped and the
\* main thread waits for the mutex
ApiLoad ==
  /\ host.driver = "runner"
  /\ host.main = "idle"
  /\ host' = [Called("load", "none") EXCEPT !.status = "Stopped", !.main = "loading"]
  /\ UNCHANGED <<m_regs, m_syscall, m_memory, panicked, last, steps, m_wram>>

\* the rest of the load function once the mutex is free: cleanup(), then the
\* file is read and parsed; on success ready() installs a new core and memory
\* and sets Ready, on failure loadingError is emitted and the function returns
LoadDone ==
  /\ host.driver = "runner"
  /\ host.main = "loading"
  /\ ~WorkerHoldsMutex
  /\ \E ok \in BOOLEAN :
       IF ok
       THEN /\ host' = [host EXCEPT !.main = "idle", !.result = "true",
                                    !.status = "Ready", !.bps = {}]
            /\ m_regs' = RegisterSet
            /\ m_syscall' = 0
            /\ m_memory' = [a \in 0..(MemSize - 1) |-> 0]
       ELSE /\ host' = [host EXCEPT !.main = "idle", !.result = "false"]
            /\ UNCHANGED <<m_regs, m_syscall, m_memory>>
  /\ UNCHANGED <<panicked, last, steps, m_wram>>

InitCore ==
  /\ m_syscall = 0
  /\ m_memory = [a \in 0..(MemSize - 1) |-> 0]
  /\ panicked = FALSE
  /\ last = NoCall
  /\ steps = 0
  /\ m_wram = NoProgram
  /\ host = NoHost

----------------------------------------------------------------------------
(* SpecCmp: a host presets GPR 1 and GPR 2 and PC, then issues integer     *)
(* compares and conditional branches, as the test "Conditional jumps       *)
(* (ints)" does.                                                           *)

CmpVals ==
  {Word4(0, 0, 0, 0), Word4(0, 0, 0, 1), Word4(0, 0, 0, 127), Word4(0, 0, 0, 128),
   Word4(0, 0, 0, 255), Word4(0, 0, 32767, 65535), Word4(0, 0, 32768, 0),
   Word4(32767, 65535, 65535, 65535), Word4(32768, 0, 0, 0),
   Word4(65535, 65535, 65535, 65535), Word4(1, 1, 1, 32768)}

CmpPCs == {W(42), AllOnes(PCLEN)}

InitCmp ==
  /\ InitCore
  /\ \E l \in CmpVals, r \in CmpVals, p \in CmpPCs :
       m_regs = [RegisterSet EXCEPT !.gpi[1] = l, !.gpi[2] = r, !.pc = p]

CmpRegStep ==
  \E size \in 0..3, build \in Builds :
    Execute(AluReg("CMP", size, REG_ZERO, 1, 2), Noop, Env(build, "wrap", Zero))

BranchStep ==
  \E o \in ConditionalBranches : Execute(Brc(o, 1), Noop, DefaultEnv)

NextCmp == CmpRegStep \/ BranchStep

SpecCmp == InitCmp /\ [][NextCmp]_vars

----------------------------------------------------------------------------
(* Claims on integer compares and branches, checked under SpecCmp          *)

\* the width in bits of an operation of the given size
WidthOf(size) == 8 * (2^size)

\* the value of a w-bit field as an integer, for w = 8 and w = 16
SignedInt(x, w) ==
  LET n == x[1] + IF w = 16 THEN BYTE * x[2] ELSE 0
  IN IF SignBit(x, w) THEN n - 2^w ELSE n

\* signed_w(a) < signed_w(b) and unsigned_w(a) < unsigned_w(b)
SignedLess(a, b, w) == Slt(SignExtend(a, w), SignExtend(b, w))
UnsignedLess(a, b, w) == Ult(Cast(a, w), Cast(b, w))

\* the true difference signed_w(a) - signed_w(b) is not a signed w-bit value:
\* worked out on the integers for 8 and 16 bits, and by the signs of the
\* operands and of the wrapped difference for 32 and 64 bits
TrueDifferenceOutside(a, b, w) ==
  IF w <= 16
  THEN LET d == SignedInt(a, w) - SignedInt(b, w)
       IN d < -(2^(w - 1)) \/ d > 2^(w - 1) - 1
  ELSE /\ SignBit(a, w) # SignBit(b, w)
       /\ SignBit(Cast(Sub(a, b), w), w) # SignBit(a, w)

CmpBranches == {"BEQ", "BNE", "BLT", "BGE", "BLTU", "BGEU"}

\* the relation each conditional branch stands for
BranchRelation(o, l, r, w) ==
  CASE o = "BEQ" -> Cast(l, w) = Cast(r, w)
    [] o = "BNE" -> Cast(l, w) # Cast(r, w)
    [] o = "BLT" -> SignedLess(l, r, w)
    [] o = "BGE" -> ~SignedLess(l, r, w)
    [] o = "BLTU" -> UnsignedLess(l, r, w)
    [] o = "BGEU" -> ~UnsignedLess(l, r, w)

\* the last call was the unbundled branch o with offset +1, and the call before
\* it the unbundled register-form CMP of GPR 1 with GPR 2
BranchAfterCmp(o) ==
  /\ last.called /\ last.prev_called /\ ~panicked
  /\ last.first = Brc(o, 1)
  /\ \E size \in 0..3 : last.prev_first = AluReg("CMP", size, REG_ZERO, 1, 2)

BranchTaken == last.ret = 0 /\ m_regs.pc = Cast(Add(last.old_pc, One), PCLEN)
BranchNotTaken == last.ret = 1 /\ m_regs.pc = last.old_pc

\* C2: after an unbundled register-form CMP at width w and an unbundled
\* conditional branch with offset +1 at PC p, the branch is taken (execute
\* returns 0 and PC is p + 1) exactly when its relation holds between the low w
\* bits of the two registers: equal for BEQ, different for BNE, signed less for
\* BLT, signed not less for BGE, unsigned less for BLTU, unsigned not less for
\* BGEU; when it is not taken execute returns 1 and PC stays p.
C2_BranchFollowsRelation ==
  \A o \in CmpBranches :
    BranchAfterCmp(o) =>
      IF BranchRelation(o, m_regs.gpi[1], m_regs.gpi[2],
                        WidthOf(last.prev_first.size))
      THEN BranchTaken ELSE BranchNotTaken

C2_Witness ==
  /\ BranchAfterCmp("BLT")
  /\ last.prev_first.size = 0
  /\ m_regs.gpi[1] = W(255) /\ m_regs.gpi[2] = W(127)
  /\ BranchTaken

\* the step is a register-form CMP of GPR 1 with GPR 2 that did not panic
CmpStep ==
  /\ last'.called /\ ~panicked'
  /\ \E size \in 0..3 : last'.first = AluReg("CMP", size, REG_ZERO, 1, 2)

\* C7: after CMP at width w of a with b, Z is set iff the low w bits are equal,
\* C iff there was an unsigned borrow (trunc_w(a - b) > trunc_w(a)), N iff the
\* w-bit difference is negative, O iff the true signed difference is not a
\* signed w-bit value, U is clear, and no GPR other than the zero register
\* has changed.
C7_CmpFlags ==
  [][CmpStep =>
       LET w == WidthOf(last'.first.size)
           a == m_regs.gpi[1]
           b == m_regs.gpi[2]
           fr == m_regs'.fr
       IN /\ HasFlag(fr, Z_MASK) = (Cast(a, w) = Cast(b, w))
          /\ HasFlag(fr, C_MASK) = Ult(Cast(a, w), Cast(Sub(a, b), w))
          /\ HasFlag(fr, C_MASK) = UnsignedLess(a, b, w)
          /\ HasFlag(fr, N_MASK) = SignBit(Cast(Sub(a, b), w), w)
          /\ HasFlag(fr, O_MASK) = TrueDifferenceOutside(a, b, w)
          /\ ~HasFlag(fr, U_MASK)
          /\ \A r \in 0..(IREG_COUNT - 2) : m_regs'.gpi[r] = m_regs.gpi[r]]_vars

C7_Witness ==
  /\ last.called /\ ~panicked
  /\ last.first = AluReg("CMP", 3, REG_ZERO, 1, 2)
  /\ m_regs.gpi[1] = Word4(32767, 65535, 65535, 65535)
  /\ m_regs.gpi[2] = AllOnes(XLEN)
  /\ HasFlag(m_regs.fr, O_MASK)

\* the last call was the byte CMP of GPR 1 = 0x7F with GPR 2 = 0xFF
ByteCmp7FvsFF ==
  /\ last.called /\ ~panicked
  /\ last.first = AluReg("CMP", 0, REG_ZERO, 1, 2)
  /\ m_regs.gpi[1] = W(127) /\ m_regs.gpi[2] = W(255)

\* the last call was the branch o, right after that byte CMP
BranchAfterByteCmp7FvsFF(o) ==
  /\ BranchAfterCmp(o)
  /\ last.prev_first.size = 0
  /\ m_regs.gpi[1] = W(127) /\ m_regs.gpi[2] = W(255)

\* C8, as the program has it: CMP at byte width of 0x7F with 0xFF (127 and -1)
\* leaves Z = 0, N = 1, O = 1, C = 1, U = 0; a following BLT is not taken and a
\* following BGE is taken.
C8_ByteCmpExample ==
  /\ ByteCmp7FvsFF => m_regs.fr = C_MASK + N_MASK + O_MASK
  /\ BranchAfterByteCmp7FvsFF("BLT") => BranchNotTaken
  /\ BranchAfterByteCmp7FvsFF("BGE") => BranchTaken

\* C8, as stated: the same compare leaves Z = 0, N = 0, O = 1, C = 0, U = 0; a
\* following BLT is taken and a following BGE is not.
C8_AsStated ==
  /\ ByteCmp7FvsFF => m_regs.fr = O_MASK
  /\ BranchAfterByteCmp7FvsFF("BLT") => BranchTaken
  /\ BranchAfterByteCmp7FvsFF("BGE") => BranchNotTaken

C8_Witness == BranchAfterByteCmp7FvsFF("BGE") /\ BranchTaken

----------------------------------------------------------------------------
(* SpecFcmp: a host presets FPR 1 and FPR 2, then issues floating-point    *)
(* compares and conditional branches, as the test "Conditional jumps       *)
(* (floats)" does.  FR starts clear or as an integer compare left it.      *)

\* register contents: 0.0 and the smallest subnormal; 1.0, 2.0, -1.0, -0.0, NaN
\* and infinity as float (low word); 1.0, -1.0, -0.0, NaN and infinity as
\* double; 2.0 and -2.0 in both halves
FcmpVals ==
  {Zero, One,
   Word4(0, 0, 16256, 0), Word4(0, 0, 16384, 0), Word4(0, 0, 49024, 0),
   Word4(0, 0, 32768, 0), Word4(0, 0, 32704, 0), Word4(0, 0, 32640, 0),
   Word4(16368, 0, 0, 0), Word4(49136, 0, 0, 0), Word4(32768, 0, 0, 0),
   Word4(32760, 0, 0, 0), Word4(32752, 0, 0, 0),
   Word4(16384, 0, 16384, 0), Word4(49152, 0, 49152, 0)}

FcmpFRs == {0, C_MASK + N_MASK + O_MASK}

InitFcmp ==
  /\ InitCore
  /\ \E l \in FcmpVals, r \in FcmpVals, f \in FcmpFRs :
       m_regs = [RegisterSet EXCEPT !.gpf[1] = l, !.gpf[2] = r, !.fr = f,
                                    !.pc = W(42)]

FcmpStep ==
  \E size \in 0..1 : Execute(FpuReg("FCMP", size, REG_ZERO, 1, 2), Noop, DefaultEnv)

FcmpBranchStep ==
  \E o \in ConditionalBranches : Execute(Brc(o, 1), Noop, DefaultEnv)

NextFcmp == FcmpStep \/ FcmpBranchStep

SpecFcmp == InitFcmp /\ [][NextFcmp]_vars

\* the operands of the FCMP of the given size, as the registers hold them
FcmpLeft(fsize) == to_floating_point(m_regs.gpf[1], fsize)
FcmpRight(fsize) == to_floating_point(m_regs.gpf[2], fsize)
BothReal(fsize) == is_real(FcmpLeft(fsize), fsize) /\ is_real(FcmpRight(fsize), fsize)

\* the relation a branch stands for, on two real operands
FpRelation(o, l, r, fsize) ==
  CASE o \in {"BEQ", "BEQU"} -> FpEq(l, r, fsize)
    [] o \in {"BNE", "BNEU"} -> ~FpEq(l, r, fsize)
    [] o \in {"BLT", "BLTU"} -> FpLt(l, r, fsize)
    [] o \in {"BGE", "BGEU"} -> FpLt(r, l, fsize) \/ FpEq(l, r, fsize)

\* the last call was FCMP of the given size on FPR 1 and FPR 2
AfterFcmp(fsize) ==
  /\ last.called /\ ~panicked
  /\ last.first = FpuReg("FCMP", fsize, REG_ZERO, 1, 2)

\* the last call was the branch o with offset +1, right after that FCMP
BranchAfterFcmp(o, fsize) ==
  /\ last.called /\ last.prev_called /\ ~panicked
  /\ last.first = Brc(o, 1)
  /\ last.prev_first = FpuReg("FCMP", fsize, REG_ZERO, 1, 2)

\* C3: FCMP at size 0 or 1 sets FR to exactly U when an operand is not a
\* finite real; otherwise it sets Z iff left = right, N and C iff left < right
\* and clears O and U.  A following BEQ, BNE, BLT, BGE is taken exactly when
\* both operands are real and =, #, <, >= holds; a following BEQU, BNEU, BLTU,
\* BGEU exactly when an operand is not real or the relation holds.
C3_FcmpFlagsAndBranches ==
  \A fsize \in 0..1 :
    /\ AfterFcmp(fsize) =>
         IF ~BothReal(fsize) THEN m_regs.fr = U_MASK
         ELSE /\ HasFlag(m_regs.fr, Z_MASK)
                   = FpEq(FcmpLeft(fsize), FcmpRight(fsize), fsize)
              /\ HasFlag(m_regs.fr, N_MASK)
                   = FpLt(FcmpLeft(fsize), FcmpRight(fsize), fsize)
              /\ HasFlag(m_regs.fr, C_MASK)
                   = FpLt(FcmpLeft(fsize), FcmpRight(fsize), fsize)
              /\ ~HasFlag(m_regs.fr, O_MASK)
              /\ ~HasFlag(m_regs.fr, U_MASK)
    /\ \A o \in ConditionalBranches :
         BranchAfterFcmp(o, fsize) =>
           LET rel == FpRelation(o, FcmpLeft(fsize), FcmpRight(fsize), fsize)
               taken == IF o \in {"BEQ", "BNE", "BLT", "BGE"}
                        THEN BothReal(fsize) /\ rel
                        ELSE ~BothReal(fsize) \/ rel
           IN IF taken THEN BranchTaken ELSE BranchNotTaken

\* BEQ was taken after comparing +0.0 with -0.0 as floats
C3_Witness ==
  /\ BranchAfterFcmp("BEQ", 0)
  /\ m_regs.gpf[1] = Zero /\ m_regs.gpf[2] = Word4(0, 0, 32768, 0)
  /\ HasFlag(m_regs.fr, Z_MASK)
  /\ BranchTaken

----------------------------------------------------------------------------
(* Spec: a host issues single words and bundles: immediate-form additions  *)
(* with and without a MOVEIX extension as the test "Add big imm" does,     *)
(* immediate moves, jumps, and control-unit instructions in the second     *)
(* word.                                                                   *)

Imm9s == {238, 511}
Imm24s == {0, 14593470}
MoveDests == {1, REG_ZERO}
Jumps == {Bra(0), Bra(1), Jump(42)}
SecondWords == {Noop, Cu("RETI"), Cu("SYSCALL")}

Init ==
  /\ InitCore
  /\ m_regs = [RegisterSet EXCEPT !.gpi[1] = One]

AddImmStep ==
  \E imm9 \in Imm9s, imm24 \in Imm24s, b \in BOOLEAN :
    Execute([AluImm("ADD", 2, 2, 1, imm9) EXCEPT !.bundle = b], MoveIx(imm24),
            DefaultEnv)

MoveImmStep ==
  \E d \in MoveDests, b \in BOOLEAN :
    Execute([MoveI(d, 5) EXCEPT !.bundle = b], Noop, DefaultEnv)

JumpStep ==
  \E j \in Jumps, b \in BOOLEAN, second \in SecondWords :
    Execute([j EXCEPT !.bundle = b], second, DefaultEnv)

LinkStep ==
  \E o \in {"INDIRECTCALL", "INDIRECTCALLR"} :
    Execute(IndirectCall(o, REG_ZERO, 1), Noop, DefaultEnv)

Next == AddImmStep \/ MoveImmStep \/ JumpStep \/ LinkStep

Spec == Init /\ [][Next]_vars

Sext9(n) == IF n < 256 THEN W(n) ELSE <<n % BYTE, 255, 255, 255, 255, 255, 255, 255>>

\* the step is a call of execute that did not panic
CallStep == last'.called /\ ~panicked'

SecondIsMoveIx == last'.second.unit = AX_UNIT_ALU_A /\ last'.second.operation = "MOVEIX"

\* the extension immediate the claim gives the step
StatedImm24 ==
  IF last'.first.bundle /\ SecondIsMoveIx THEN last'.second.moveix_imm24 ELSE 0

\* C4: imm24 is the second word's moveix_imm24 exactly when the first word has
\* the bundle flag and the second is a MOVEIX, and 0 otherwise; a MOVEIX in the
\* second word is not dispatched, so the bundle leaves the state the first
\* word alone leaves; an immediate-form ADD uses right = sext9(imm9) XOR
\* (imm24 << 8); and the bundle (ADD 32-bit r2 = r1 + imm, MOVEIX) for the
\* immediate 0xDEADBEEE with r1 = 1 leaves r1 = 1, r2 = 0xDEADBEEF and returns 2.
C4_ExtensionImmediate ==
  [][CallStep =>
       /\ last'.imm24 = StatedImm24
       /\ (last'.first.bundle /\ SecondIsMoveIx) =>
            \E S1 \in {execute_unit(Core(m_regs, m_syscall, m_memory, FALSE),
                                    last'.first, 0, StatedImm24, DefaultEnv)} :
               /\ m_regs' = S1.regs
               /\ m_syscall' = S1.syscall
               /\ m_memory' = S1.mem
       /\ \A imm9 \in Imm9s :
            (last'.first = [AluImm("ADD", 2, 2, 1, imm9)
                              EXCEPT !.bundle = last'.first.bundle]) =>
              /\ m_regs'.gpi[2] =
                   Cast(Add(m_regs.gpi[1],
                            XorW(Sext9(imm9), Shl(W(StatedImm24), 8))), 32)
              /\ m_regs'.gpi[1] = m_regs.gpi[1]
       /\ (/\ last'.first = Bundled(AluImm("ADD", 2, 2, 1, 238))
           /\ last'.second = MoveIx(14593470)
           /\ m_regs.gpi[1] = One) =>
            /\ m_regs'.gpi[1] = One
            /\ m_regs'.gpi[2] = Word4(0, 0, 57005, 48879)
            /\ last'.ret = 2]_vars

C4_Witness ==
  /\ last.called /\ ~panicked
  /\ last.first = Bundled(AluImm("ADD", 2, 2, 1, 238))
  /\ last.second = MoveIx(14593470)
  /\ last.imm24 = 14593470
  /\ m_regs.gpi[1] = One
  /\ m_regs.gpi[2] = Word4(0, 0, 57005, 48879)
  /\ last.ret = 2

\* C5, as stated: in every state observed after execute() returns, GPR 63 and
\* FPR 63 are 0.
C5_ZeroRegistersAfterExecute ==
  (last.called /\ ~panicked) =>
    m_regs.gpi[REG_ZERO] = Zero /\ m_regs.gpf[REG_ZERO] = Zero

----------------------------------------------------------------------------
(* SpecAcc: a host presets GPR 1, GPR 2, the memory, the MDU and EFU       *)
(* registers, then issues sized ALU operations, instructions of every unit *)
(* with ACC as destination, and bundles that chain through the bypass      *)
(* registers.                                                              *)

AccLefts == {W(255), W(32767)}
AccRights == {One, W(255)}
SizedOps == {"ADD", "ADDS", "SUBS", "XOR"}
AccDests == {3, REG_ACC}

\* r3 = ACC + 0 at 64 bits: reads ACC in the slot it is issued in
ReadAcc == AluImm("ADD", 3, 3, REG_ACC, 0)

ChainFirsts == {MoveI(REG_ACC, 5), MoveI(REG_BA2, 7), AluReg("CMP", 3, REG_ZERO, 1, 2)}
ChainSeconds == {MoveI(REG_ACC, 6), ReadAcc}

InitAcc ==
  /\ m_syscall = 0
  /\ m_memory = [a \in 0..(MemSize - 1) |-> a + 1]
  /\ panicked = FALSE
  /\ last = NoCall
  /\ steps = 0
  /\ m_wram = NoProgram
  /\ host = NoHost
  /\ \E l \in AccLefts, r \in AccRights :
       m_regs = [RegisterSet EXCEPT !.gpi[1] = l, !.gpi[2] = r, !.gpf[1] = l,
                                    !.mdu[0] = W(7), !.efu_q = W(9)]

SizedAluStep ==
  \E o \in SizedOps, size \in 0..3, d \in AccDests :
    Execute(AluReg(o, size, d, 1, 2), Noop, DefaultEnv)

InsStep ==
  \E d \in AccDests : Execute(Ins(d, 1, 0, 8), Noop, DefaultEnv)

ChainStep ==
  \E first \in ChainFirsts, second \in ChainSeconds :
    Execute(Bundled(first), second, DefaultEnv)

AccDestStep ==
  \E op \in {LdImm(0, REG_ACC, REG_ZERO, 0), GetMd(REG_ACC, 0), GetEf(REG_ACC),
             FpuReg("FMOVE", 0, REG_ACC, 1, 0),
             IndirectCall("INDIRECTCALL", REG_ACC, 1)} :
    Execute(op, Noop, DefaultEnv)

NextAcc == SizedAluStep \/ InsStep \/ ChainStep \/ AccDestStep

SpecAcc == InitAcc /\ [][NextAcc]_vars

\* C6, as stated: after a sized ALU operation the bits of the destination at
\* positions >= w are 0, unless the operation is ADDS or SUBS, where each of
\* them equals bit w-1 of the result.
C6_UpperBitsAsStated ==
  [][(/\ CallStep
      /\ \E o \in SizedOps, size \in 0..3, d \in AccDests :
           last'.first = AluReg(o, size, d, 1, 2)) =>
       LET w == WidthOf(last'.first.size)
           dest == IF last'.first.reg_a = REG_ACC THEN REG_BA1
                   ELSE last'.first.reg_a
           v == m_regs'.gpi[dest]
       IN IF last'.first.operation \in {"ADDS", "SUBS"}
          THEN v = SignExtend(v, w)
          ELSE v = Cast(v, w)]_vars

\* C9, as stated: an instruction of any unit whose destination field is ACC
\* leaves GPR 56 and FPR 56 as they were.
C9_AccWritesAsStated ==
  [][(/\ CallStep
      /\ last'.first.reg_a = REG_ACC
      /\ \/ ~last'.first.bundle
         \/ SecondIsMoveIx
         \/ last'.second.reg_a = REG_ACC) =>
       /\ m_regs'.gpi[REG_ACC] = m_regs.gpi[REG_ACC]
       /\ m_regs'.gpf[REG_ACC] = m_regs.gpf[REG_ACC]]_vars

\* C10, as stated: an ALU write-back of v in slot s stores v in GPR 57+s and in
\* reg_a unless reg_a is ACC (for INS, v is the destination merged with the
\* inserted bits); an ALU read of ACC in slot s returns GPR 57+s; and an ALU
\* instruction in slot s that reads ACC sees the value the last ALU instruction
\* of slot s wrote back.
C10_BypassChainAsStated ==
  [][CallStep =>
       /\ \A d \in AccDests :
            last'.first = Ins(d, 1, 0, 8) =>
              LET old == IF d = REG_ACC THEN m_regs.gpi[REG_BA1] ELSE m_regs.gpi[d]
                  v == OrW(old, Cast(m_regs.gpi[1], 8))
              IN /\ m_regs'.gpi[REG_BA1] = v
                 /\ d # REG_ACC => m_regs'.gpi[d] = v
       /\ (last'.first.bundle /\ last'.second = MoveI(REG_ACC, 6)) =>
            m_regs'.gpi[REG_BA2] = W(6)
       /\ (/\ last'.first = Bundled(AluReg("CMP", 3, REG_ZERO, 1, 2))
           /\ last'.second = ReadAcc) =>
            m_regs'.gpi[3] = m_regs.gpi[REG_BA2]
       /\ (/\ last.called /\ last.first.bundle /\ last.second = MoveI(REG_ACC, 6)
           /\ last'.first.bundle /\ last'.second = ReadAcc) =>
            m_regs'.gpi[3] = W(6)]_vars

----------------------------------------------------------------------------
(* SpecBru: a host sets PC and issues CALL and CALLR, alone and bundled    *)
(* with a MOVEIX that extends the target.                                  *)

CallPCs == {W(42), AllOnes(PCLEN)}
CallImms == {5, 8388608, 16777215}
CallExts == {0, 1, 16777215}

InitBru ==
  /\ InitCore
  /\ \E p \in CallPCs : m_regs = [RegisterSet EXCEPT !.pc = p]

LinkCallStep ==
  \E o \in {"CALL", "CALLR"}, imm \in CallImms, b \in BOOLEAN, x \in CallExts :
    Execute([Call(o, imm) EXCEPT !.bundle = b], MoveIx(x), DefaultEnv)

NextBru == LinkCallStep

SpecBru == InitBru /\ [][NextBru]_vars

\* sext24 of a 24-bit field, written out
Sext24(n) ==
  IF n < 8388608 THEN W(n)
  ELSE <<n % BYTE, (n \div BYTE) % BYTE, n \div (BYTE * BYTE), 255, 255, 255, 255, 255>>

\* C11: CALL and CALLR executed at PC p set GPR 31 to p + 2 when the call has
\* the bundle flag and to p + 1 when it has not (on the 32 bits of PC); CALL
\* sets PC to bru_imm24 | (imm24 << 24) truncated to 32 bits; CALLR sets PC to
\* p + rel24 modulo 2^32, rel24 = sext24(bru_imm24) XOR (imm24 << 23).
C11_CallLinkAndTarget ==
  [][(CallStep /\ last'.first.operation \in {"CALL", "CALLR"}) =>
       LET p == m_regs.pc
           imm == last'.first.bru_imm24
           link == IF last'.first.bundle THEN W(2) ELSE One
           rel24 == XorW(Sext24(imm), Shl(W(StatedImm24), 23))
           abs24 == OrW(W(imm), Shl(W(StatedImm24), 24))
       IN /\ m_regs'.gpi[31] = Cast(Add(p, link), PCLEN)
          /\ last'.first.operation = "CALL" => m_regs'.pc = Cast(abs24, PCLEN)
          /\ last'.first.operation = "CALLR" =>
               m_regs'.pc = Cast(Add(p, rel24), PCLEN)]_vars

\* a bundled CALLR of offset -1 at PC 0xFFFFFFFF: the link wraps to 1
C11_Witness ==
  /\ last.called /\ ~panicked
  /\ last.first = Bundled(Call("CALLR", 16777215)) /\ last.second = MoveIx(0)
  /\ last.old_pc = AllOnes(PCLEN)
  /\ m_regs.gpi[31] = One
  /\ m_regs.pc = Word4(0, 0, 65535, 65534)

----------------------------------------------------------------------------
(* SpecCycle: a host loads a four-word program, presets FR, and then calls *)
(* cycle() and syscall() in any order.                                     *)

\* rel23 fields: 0, +1, +2 and -1
CycleOffsets == {0, 1, 2, 8388607}

CycleFirsts ==
  {[w EXCEPT !.bundle = b] :
     w \in {Brc("BEQ", r) : r \in CycleOffsets}
            \cup {Noop, AluImm("ADD", 3, 3, 1, 1), Bra(0), Bra(2)},
     b \in BOOLEAN}

CycleSeconds == {Noop, MoveIx(1), Cu("SYSCALL"), Bundled(Cu("SYSCALL")), Cu("RETI")}

CycleFRs == {0, Z_MASK}

InitCycle ==
  /\ m_syscall = 0
  /\ m_memory = [a \in 0..(MemSize - 1) |-> 0]
  /\ panicked = FALSE
  /\ last = NoCall
  /\ steps = 0
  /\ host = [NoHost EXCEPT !.driver = "test"]
  /\ \E w0 \in CycleFirsts, w1 \in CycleSeconds, f \in CycleFRs :
       /\ m_wram = LoadImage(<<w0, w1, w0, w1>>)
       /\ m_regs = [RegisterSet EXCEPT !.fr = f]

HostCycle ==
  /\ host.driver = "test"
  /\ Cycle(DefaultEnv, [host EXCEPT !.taken = "none"])

HostSyscall == \E h \in Handlers : Syscall(h)

NextCycle == HostCycle \/ HostSyscall

SpecCycle == InitCycle /\ [][NextCycle]_vars

\* the step is a call of cycle() that did not panic
CycleStep == steps' = steps + 1 /\ ~panicked'

\* the second word is executed in slot 1, and it is a control-unit word
SecondRuns == last'.first.bundle /\ ~SecondIsMoveIx
SecondIsCu == SecondRuns /\ last'.second.unit = AX_UNIT_EFU_CU
SecondIsSyscall == SecondIsCu /\ last'.second.operation = "SYSCALL"

FirstIsBranch ==
  last'.first.unit = AX_UNIT_BRU /\ last'.first.operation \in ConditionalBranches

\* sext23 of a 23-bit field, written out
Sext23(n) ==
  IF n < 4194304 THEN W(n)
  ELSE <<n % BYTE, (n \div BYTE) % BYTE, 128 + (n \div (BYTE * BYTE)),
         255, 255, 255, 255, 255>>

\* the offset of the branch in the first word
StatedRel23 == XorW(Sext23(last'.first.bru_imm23), Shl(W(StatedImm24), 22))

\* the width of the bundle in words
BundleWords == IF last'.first.bundle THEN W(2) ELSE One

\* C12, as stated: in a cycle whose first word is a conditional branch at PC p
\* (and whose second word, if executed, does not write PC), the PC after the
\* cycle is p + rel23 modulo 2^32 when the predicate holds against FR, for
\* every rel23, and p + 1 (unbundled) or p + 2 (bundle) when it does not.
C12_BranchCycleAsStated ==
  [][(CycleStep /\ FirstIsBranch /\ ~SecondIsCu) =>
       IF bru_condition(Core(m_regs, m_syscall, m_memory, FALSE),
                        last'.first.operation)
       THEN m_regs'.pc = Cast(Add(m_regs.pc, StatedRel23), PCLEN)
       ELSE m_regs'.pc = Cast(Add(m_regs.pc, BundleWords), PCLEN)]_vars

\* C13, as stated: after a cycle that executes a SYSCALL, from any PC, PC is
\* 0x80000000 and the syscall flag is set; the flag stays set across further
\* cycles; and a cycle that sets the flag has executed a SYSCALL.
C13_SyscallParksAsStated ==
  [][CycleStep =>
       /\ SecondIsSyscall => (m_regs'.pc = SYSCALL_VECTOR /\ m_syscall' # 0)
       /\ m_syscall # 0 => m_syscall' # 0
       /\ (m_syscall = 0 /\ m_syscall' # 0) => SecondIsSyscall]_vars

\* the first word is not a branch unit word, so it leaves PC alone
FirstKeepsPc == last'.first.unit # AX_UNIT_BRU

\* C14, as stated: a SYSCALL in the second word of a bundle fetched at PC p
\* leaves IR = p + 2, whatever the bundle bit of the SYSCALL word is.
C14_ReturnPcAsStated ==
  [][(CycleStep /\ SecondIsSyscall /\ FirstKeepsPc) =>
       m_regs'.ir = Cast(Add(m_regs.pc, W(2)), PCLEN)]_vars

\* the step is a call of syscall(): no cycle is counted
GateStep == steps' = steps

\* C15: syscall(handler) with the flag set invokes the handler once, clears the
\* flag and returns true; with the flag clear it returns false, invokes no
\* handler and changes no state; a second call without a SYSCALL in between
\* returns false; so the handler runs at most once for each cycle that
\* executed a SYSCALL.
C15_SyscallGate ==
  [][GateStep =>
       /\ IF m_syscall # 0
          THEN /\ host'.taken = "true"
               /\ host'.handled = host.handled + 1
               /\ \E h \in Handlers : m_regs' = run_handler(m_regs, h)
               /\ m_syscall' = 0
          ELSE /\ host'.taken = "false"
               /\ host'.handled = host.handled
               /\ m_regs' = m_regs /\ m_syscall' = 0 /\ m_memory' = m_memory
       /\ host.taken = "true" => host'.taken = "false"
       /\ host'.handled <= steps']_vars

\* two SYSCALLs, each taken once
C15_Witness ==
  /\ host.driver = "test"
  /\ host.taken = "true" /\ host.handled = 2
  /\ m_syscall = 0 /\ ~panicked

\* the first word is a branch unit word whose branch is taken
FirstTookBranch ==
  /\ last'.first.unit = AX_UNIT_BRU
  /\ last'.first.operation \in ConditionalBranches =>
       bru_condition(Core(m_regs, m_syscall, m_memory, FALSE), last'.first.operation)

\* C20, as stated: every cycle increases CC by 1; a cycle whose first word has
\* the bundle flag and whose second word is a MOVEIX increases IC by 2, and
\* advances PC by 2 unless the first word took a branch.
C20_CountersAsStated ==
  [][CycleStep =>
       /\ m_regs'.cc = Cast(Add(m_regs.cc, One), 32)
       /\ (last'.first.bundle /\ SecondIsMoveIx) =>
            /\ m_regs'.ic = Cast(Add(m_regs.ic, W(2)), 32)
            /\ ~FirstTookBranch => m_regs'.pc = Cast(Add(m_regs.pc, W(2)), PCLEN)]_vars

----------------------------------------------------------------------------
(* SpecRunner: a program that ends in a SYSCALL is run by AltairX::run     *)
(* (loaded at word 4, with a syscall id in GPR 1) or by the VMRunner       *)
(* (loaded at word 0 by loadRawProgram and started unpaused, as            *)
(* testRunnerBlockedInSyscall does).                                       *)

\* createSyscallProgram: make_bundle(noop | 1, SYSCALL)
SyscallProgram == <<Bundled(Noop), Cu("SYSCALL")>>

RunnerPrograms ==
  {SyscallProgram,
   <<Bundled(Noop), Bundled(Cu("SYSCALL"))>>,
   <<Noop, Bundled(AluImm("ADD", 3, 3, 1, 1)), Cu("SYSCALL")>>}

\* exit, stdio_read, stdio_write and an unknown id
SyscallIds == {1, 2, 3, 9}

InitRunner ==
  /\ m_syscall = 0
  /\ m_memory = [a \in 0..(MemSize - 1) |-> 0]
  /\ panicked = FALSE
  /\ last = NoCall
  /\ steps = 0
  /\ \/ /\ host = [NoHost EXCEPT !.driver = "runner", !.status = "Ready",
                                  !.start = "false"]
        /\ \E image \in RunnerPrograms : m_wram = LoadImage(image)
        /\ m_regs = RegisterSet
     \/ /\ host = [NoHost EXCEPT !.driver = "altairx", !.at = "cycle"]
        /\ \E image \in RunnerPrograms, id \in SyscallIds :
             /\ m_wram = LoadImage(<<Noop, Noop, Noop, Noop>> \o image)
             /\ m_regs = [RegisterSet EXCEPT !.pc = W(4), !.gpi[1] = W(id),
                                          !.gpi[4] = One]

NextRunner ==
  \/ RunCycle \/ RunSyscall
  \/ WorkerStart \/ WorkerEnter \/ WorkerPoll \/ WorkerCycle \/ WorkerGate
  \/ WorkerResume
  \/ MainSlot \/ MainSlotReturn \/ MainResume

SpecRunner == InitRunner /\ [][NextRunner]_vars

\* C16: in both drivers the handler of a SYSCALL is invoked after the cycle of
\* the syscall bundle and has returned before the next cycle() begins; while
\* the signal is queued or its slot runs the worker is blocked; once the slot
\* has stopped the runner no further cycle is executed, and the registers
\* are those the syscall bundle left.
C16_HandlerBetweenCycles ==
  [][/\ steps' = steps + 1 => (m_syscall = 0 /\ host.main = "idle")
     /\ host'.handled # host.handled => (m_syscall # 0 /\ steps' = steps)
     /\ host'.main # "idle" => host'.at = "blocked"
     /\ host.main # "idle" => (m_regs' = m_regs /\ m_syscall' = m_syscall)
     /\ (host.driver = "runner" /\ host.status = "Stopped") => steps' = steps
     /\ (host'.driver = "runner" /\ host'.status = "Stopped") =>
          m_regs' = host'.parked]_vars

\* the slot has stopped the runner and the worker has left its loop
C16_Witness ==
  /\ host.driver = "runner" /\ host.status = "Stopped" /\ host.at = "left"
  /\ host.handled = 1 /\ host.main = "idle"
  /\ m_regs.pc = SYSCALL_VECTOR /\ m_syscall = 0

\* C17, as stated: after the runner has run the program bundle(NOP with bundle
\* flag, SYSCALL) from PC 0 and the syscall slot has stopped it, PC is 2.
C17_PcAfterStopAsStated ==
  (/\ host.driver = "runner"
   /\ m_wram = LoadImage(SyscallProgram)
   /\ host.status = "Stopped") => m_regs.pc = W(2)

----------------------------------------------------------------------------
(* Stores and loads of the LSU: a host hands execute() stores and, after a *)
(* store, loads of the same width, with register and immediate addresses.  *)

MemValues == {<<128, 255, 127, 1, 128, 0, 0, 128>>, <<127, 128, 255, 255, 0, 1, 2, 3>>}

\* base addresses: 3, and 2^64 - 514
MemBases == {W(3), <<254, 253, 255, 255, 255, 255, 255, 255>>}

MemIndexes == {Zero, One, W(129)}

MemShifts == {0, 2}

\* lsu_imm10 with the extension a bundled MOVEIX supplies (0: no MOVEIX)
MemImms == {<<0, 0>>, <<1023, 0>>, <<4, 1>>}

MemFill == 170

LsuStores == {"ST", "STI"}

LsuLoads == {"LD", "LDS", "LDI", "LDIS"}

InitMem ==
  /\ m_syscall = 0
  /\ m_memory = [a \in 0..(MemSize - 1) |-> MemFill]
  /\ panicked = FALSE
  /\ last = NoCall
  /\ steps = 0
  /\ m_wram = NoProgram
  /\ host = NoHost
  /\ \E x \in MemValues, base \in MemBases, index \in MemIndexes :
       m_regs = [RegisterSet EXCEPT !.gpi[1] = x, !.gpi[2] = base,
                                    !.gpi[3] = index]

\* the address fields of an instruction: <<lsu_shift, lsu_imm10, extension>>,
\* a shift in the register form, an immediate and its extension otherwise
LsuForms(o) ==
  IF o \in {"ST", "LD", "LDS"} THEN {<<shift, 0, 0>> : shift \in MemShifts}
  ELSE {<<0, im[1], im[2]>> : im \in MemImms}

\* execute() of an LSU instruction, bundled with a MOVEIX when its immediate
\* is extended
LsuCall(o, size, a) ==
  \E f \in LsuForms(o) :
    Execute(IF f[3] = 0 THEN Lsu(o, size, a, 2, 3, f[1], f[2])
            ELSE Bundled(Lsu(o, size, a, 2, 3, f[1], f[2])),
            MoveIx(f[3]), DefaultEnv)

StoreStep == \E size \in 0..3, o \in LsuStores : LsuCall(o, size, 1)

\* a load of the width of the store that was executed just before
LoadStep ==
  /\ last.called
  /\ last.first.operation \in LsuStores
  /\ \E a \in {1, 4}, o \in LsuLoads : LsuCall(o, last.first.size, a)

NextMem == StoreStep \/ LoadStep

SpecMem == InitMem /\ [][NextMem]_vars

\* sext10 of the 10-bit field, as a 64-bit word
Sext10(n) ==
  IF n < 512 THEN W(n)
  ELSE <<n % BYTE, 252 + n \div BYTE, 255, 255, 255, 255, 255, 255>>

\* the address stated for an LSU instruction executed in slot 0
StatedAddr(regs, op, imm24) ==
  IF op.operation \in {"LD", "LDS", "ST"}
  THEN Add(regs.gpi[op.reg_b], Shl(regs.gpi[op.reg_c], op.lsu_shift))
  ELSE Add(regs.gpi[op.reg_b], XorW(Sext10(op.lsu_imm10), Shl(W(imm24), 9)))

\* x mod 2^(8n), zero-extended and sign-extended to 64 bits
ZeroExtended(x, n) == [i \in 1..8 |-> IF i <= n THEN x[i] ELSE 0]

SignExtended(x, n) ==
  [i \in 1..8 |-> IF i <= n THEN x[i] ELSE IF x[n] >= 128 THEN 255 ELSE 0]

StoreRan == steps' = steps + 1 /\ last'.first.operation \in LsuStores /\ ~panicked'

LoadRan ==
  /\ steps' = steps + 1
  /\ last'.first.operation \in LsuLoads
  /\ last.called /\ last.first.operation \in LsuStores
  /\ last'.first.size = last.first.size
  /\ StatedAddr(m_regs, last'.first, last'.imm24) =
       StatedAddr(m_regs, last.first, last.imm24)

\* C18: a store of x at width w changes exactly the w/8 bytes at the stated
\* address, to the low bytes of x; a load of the same width from the same
\* address right after it returns x mod 2^w zero-extended (LD, LDI) or
\* sign-extended from bit w-1 (LDS, LDIS); the address is
\* reg_b + (sext10(lsu_imm10) XOR (imm24 << 9)) in the immediate form and
\* reg_b + (reg_c << lsu_shift) in the register form, modulo 2^64.
C18_StoreThenLoad ==
  [][/\ StoreRan =>
          LET A == StatedAddr(m_regs, last'.first, last'.imm24)
              n == 2^(last'.first.size)
              x == m_regs.gpi[last'.first.reg_a]
          IN /\ IsSmall(A)
             /\ ToNat(A) + n <= MemSize
             /\ m_memory' = [a \in 0..(MemSize - 1) |->
                               IF a >= ToNat(A) /\ a < ToNat(A) + n
                               THEN x[a - ToNat(A) + 1] ELSE m_memory[a]]
     /\ LoadRan =>
          LET n == 2^(last.first.size)
              x == m_regs.gpi[last.first.reg_a]
          IN /\ ~panicked'
             /\ m_regs'.gpi[last'.first.reg_a] =
                  IF last'.first.operation \in {"LD", "LDI"}
                  THEN ZeroExtended(x, n) ELSE SignExtended(x, n)]_vars

\* a sign-extending byte load through an extended immediate, wrapping modulo
\* 2^64, has returned a negative value stored through a register address
C18_Witness ==
  /\ ~panicked
  /\ last.called /\ last.prev_called
  /\ last.first.operation = "LDIS" /\ last.imm24 = 1 /\ last.first.size = 0
  /\ last.prev_first.operation = "ST"
  /\ m_regs.gpi[2] # W(3)
  /\ m_regs.gpi[last.first.reg_a] = <<128, 255, 255, 255, 255, 255, 255, 255>>
  /\ m_memory[2] = 128 /\ m_memory[1] = MemFill /\ m_memory[3] = MemFill

----------------------------------------------------------------------------
(* The MDU register transfers: a host hands execute() SETMD and GETMD      *)

MduValues == {W(5), <<1, 2, 3, 4, 5, 6, 7, 8>>, AllOnes(XLEN)}

InitMdu ==
  /\ InitCore
  /\ \E v \in MduValues : m_regs = [RegisterSet EXCEPT !.gpi[1] = v]

\* execute() of SETMD from GPR 1, or of GETMD into GPR 2
MduStep ==
  \E o \in {"SETMD", "GETMD"}, size \in 0..3, pq \in 0..3 :
    Execute([(IF o = "SETMD" THEN SetMd(1, pq) ELSE GetMd(2, pq))
               EXCEPT !.size = size],
            Noop, DefaultEnv)

NextMdu == MduStep

SpecMdu == InitMdu /\ [][NextMdu]_vars

GetmdAfterSetmd ==
  /\ steps' = steps + 1
  /\ last'.first.operation = "GETMD"
  /\ last.called /\ last.first.operation = "SETMD"
  /\ last'.first.mdu_pq = last.first.mdu_pq

\* C19: GETMD from a slot right after SETMD of v into that slot returns v
\* truncated to the width 8 << size of the GETMD.
C19_GetmdTruncatedAsStated ==
  [][GetmdAfterSetmd =>
       m_regs'.gpi[last'.first.reg_a] =
         ZeroExtended(m_regs.gpi[last.first.reg_a], 2^(last'.first.size))]_vars

----------------------------------------------------------------------------
(* A host that hands execute() one instruction of every unit, alone or as  *)
(* the first word of a bundle.  Every instruction writes r3 or ACC, so the *)
(* operand registers r1, r2, r4, r5 and r6 keep their values.              *)

UnitFR == O_MASK + U_MASK

UnitRegs ==
  [RegisterSet EXCEPT !.gpi[1] = W(200), !.gpi[2] = W(200),
                      !.gpi[4] = W(252), !.gpi[5] = W(255), !.gpi[6] = W(100),
                      !.gpi[REG_ACC] = W(3840),
                      !.gpf[1] = W(200), !.gpf[2] = W(100),
                      !.fr = UnitFR]

UnitAluWords ==
  {AluReg("ADD", 3, 3, 1, 2), AluShifted("ADD", 3, 3, 1, 2, 1),
   AluReg("SLTU", 0, 3, 1, 6), AluReg("SLTS", 0, 3, 1, 6), AluReg("SLTS", 3, 3, 6, 1),
   AluReg("CMP", 0, 0, 1, 6), AluReg("CMP", 3, 0, 1, 6),
   MoveI(3, 5), Ins(3, 1, 0, 8), Ins(REG_ACC, 1, 4, 12)}

UnitMduWords ==
  {Mdu("DIV", 0, 4, 5), Mdu("DIV", 3, 4, 5), Mdu("DIVU", 0, 1, 2), Mdu("DIVU", 0, 1, 6),
   Mdu("DIV", 3, 1, REG_ZERO), Mdu("MUL", 0, 1, 6), Mdu("MULU", 0, 1, 6),
   SetMd(1, 2), GetMd(3, 0)}

UnitFpuWords ==
  {FpuReg(o, 0, 3, 1, 2) : o \in FpuFallThrough}
    \cup {FpuReg("FADD", 1, 3, 1, 2), FpuReg("FMOVE", 0, 3, 1, 0),
          FpuReg("FCMP", 0, 0, 1, 2)}

UnitOtherWords ==
  {LdImm(0, 3, REG_ZERO, 0), Lsu("STI", 0, 1, REG_ZERO, 0, 0, 2),
   Efu("FDIV", 0), GetEf(3),
   Bra(1), Brc("BEQ", 1), Call("CALL", 5), IndirectCall("INDIRECTCALL", 3, 1)}

UnitWords == UnitAluWords \cup UnitMduWords \cup UnitFpuWords \cup UnitOtherWords

UnitSeconds ==
  {Cu("SYSCALL"), Cu("RETI"), AluReg("CMP", 3, 0, 1, 6), MoveI(3, 6)}

UnitBundles ==
  {<<Bundled(first), second>> : first \in {MoveI(3, 5), Bra(1)}, second \in UnitSeconds}

UnitCalls == {<<first, Noop>> : first \in UnitWords} \cup UnitBundles

\* the outcomes a build can give the division of the word
FaultsOf(op) ==
  IF op.unit = AX_UNIT_MDU_VU /\ op.operation \in {"DIV", "DIVU"} THEN DivFaults
  ELSE {"trap"}

InitUnits ==
  /\ InitCore
  /\ m_regs = UnitRegs

UnitStep ==
  \E call \in UnitCalls : \E fault \in FaultsOf(call[1]) :
    Execute(call[1], call[2], EnvDiv(fault))

NextUnits == UnitStep

SpecUnits == InitUnits /\ [][NextUnits]_vars

\* the instruction of a unit that works on FR
IsCompare(op) ==
  \/ op.unit \in {AX_UNIT_ALU_A, AX_UNIT_ALU_B} /\ op.operation = "CMP"
  \/ op.unit = AX_UNIT_FPU /\ op.operation = "FCMP"

ComparedIn(call) ==
  IsCompare(call.first)
    \/ (call.first.bundle /\ ~is_moveix(call.second) /\ IsCompare(call.second))

\* C21: a call of execute() in which neither word is a CMP or an FCMP leaves
\* FR as it was, whatever the unit and whatever ran before it.
C21_OnlyCompareChangesFR ==
  [][steps' = steps + 1 /\ ~ComparedIn(last') => m_regs'.fr = m_regs.fr]_vars

\* a CMP has given FR a new value, and a division run after it has written
\* its remainder and left that value in place
C21_Witness ==
  /\ last.called /\ last.prev_called /\ ~panicked
  /\ IsCompare(last.prev_first) /\ last.first.operation = "DIV"
  /\ m_regs.fr # UnitFR
  /\ m_regs.mdu[1] # Zero

\* a call of execute() with one word, which ran to its end
SingleCall(unit, o) ==
  /\ steps' = steps + 1 /\ ~panicked'
  /\ ~last'.first.bundle
  /\ last'.first.unit = unit /\ last'.first.operation = o

\* the registers the word of the call names, before and after the call
CallLeft == m_regs.gpi[last'.first.reg_b]
CallRight == m_regs.gpi[last'.first.reg_c]
CallDest == m_regs'.gpi[last'.first.reg_a]
CallWidth == WidthOf(last'.first.size)

\* C24, as stated: the right operand of a register-form ALU operation is
\* read_reg(reg_c) shifted left by alu_shift, so a 64-bit ADD writes
\* left + (read_reg(reg_c) << alu_shift).
C24_ShiftedRightAsStated ==
  [][SingleCall(AX_UNIT_ALU_B, "ADD") /\ ~last'.first.alu_has_imm
       /\ last'.first.size = 3
       => CallDest = Add(CallLeft, Shl(CallRight, last'.first.alu_shift))]_vars

\* C25, as stated: SLTU writes 1 when the left operand is below the right
\* operand as unsigned numbers of w bits, and 0 otherwise.
C25_SltuAsStated ==
  [][SingleCall(AX_UNIT_ALU_B, "SLTU")
       => CallDest = BoolW(UnsignedLess(CallLeft, CallRight, CallWidth))]_vars

\* C26, as stated: SLTS writes 1 when the left operand is below the right
\* operand as two's-complement numbers of w bits, and 0 otherwise.
C26_SltsAsStated ==
  [][SingleCall(AX_UNIT_ALU_B, "SLTS")
       => CallDest = BoolW(SignedLess(CallLeft, CallRight, CallWidth))]_vars

\* C27, as stated: DIV with a divisor that is not zero writes the quotient
\* and the remainder of the operands sign-extended from w bits to Q and QR,
\* truncated to w bits, and leaves PL and PH alone.
C27_DivAsStated ==
  [][SingleCall(AX_UNIT_MDU_VU, "DIV") /\ Cast(CallRight, CallWidth) # Zero
       => LET m == SDivMod(SignExtend(CallLeft, CallWidth),
                           SignExtend(CallRight, CallWidth))
          IN /\ m_regs'.mdu[0] = Cast(m[1], CallWidth)
             /\ m_regs'.mdu[1] = Cast(m[2], CallWidth)
             /\ m_regs'.mdu[2] = m_regs.mdu[2]
             /\ m_regs'.mdu[3] = m_regs.mdu[3]]_vars

\* C28, as stated: DIVU with a divisor that is not zero writes the quotient
\* and the remainder of the operands, taken as unsigned numbers of w bits, to
\* Q and QR.
C28_DivuAsStated ==
  [][SingleCall(AX_UNIT_MDU_VU, "DIVU") /\ Cast(CallRight, CallWidth) # Zero
       => LET m == UDivMod(Cast(CallLeft, CallWidth), Cast(CallRight, CallWidth))
          IN /\ m_regs'.mdu[0] = m[1]
             /\ m_regs'.mdu[1] = m[2]]_vars

\* v = (left << ext_ins_imm1) & ((1 << ext_ins_imm2) - 1)
InsValue ==
  AndW(Shl(CallLeft, last'.first.ext_ins_imm1),
       Sub(Shl(One, last'.first.ext_ins_imm2), One))

\* C29, as stated: INS ORs v into the destination: into reg_a, which the
\* bypass of the slot then copies, or, for reg_a = ACC, into the bypass.
C29_InsAsStated ==
  [][SingleCall(AX_UNIT_ALU_A, "INS")
       => IF last'.first.reg_a # REG_ACC
          THEN /\ CallDest = OrW(m_regs.gpi[last'.first.reg_a], InsValue)
               /\ m_regs'.gpi[REG_BA1] = CallDest
          ELSE m_regs'.gpi[REG_BA1] = OrW(m_regs.gpi[REG_BA1], InsValue)]_vars

\* C30, as stated: a floating-point operation of the list with size 0 or 1
\* runs to its end without a panic.
C30_FpuCompletesAsStated ==
  [][steps' = steps + 1 /\ last'.first.unit = AX_UNIT_FPU
       /\ last'.first.operation \in FpuFallThrough /\ last'.first.size \in {0, 1}
       => ~panicked']_vars

----------------------------------------------------------------------------
(* The VMRunner from its construction: no program is loaded, the status is *)
(* Stopped, and the main thread calls load, start, pause, resume and stop  *)
(* at any time while the worker thread runs.                               *)

InitStatus ==
  /\ m_syscall = 0
  /\ m_memory = [a \in 0..(MemSize - 1) |-> 0]
  /\ panicked = FALSE
  /\ last = NoCall
  /\ steps = 0
  /\ host = [NoHost EXCEPT !.driver = "runner"]
  /\ \E image \in RunnerPrograms : m_wram = LoadImage(image)
  /\ m_regs = RegisterSet

NextStatus ==
  \/ ApiLoad \/ LoadDone \/ ApiStart \/ ApiPause \/ ApiResume \/ ApiStop
  \/ WorkerStart \/ WorkerEnter \/ WorkerPoll \/ WorkerCycle \/ WorkerCatch
  \/ WorkerGate \/ WorkerResume \/ MainSlot \/ MainSlotReturn

SpecStatus == InitStatus /\ [][NextStatus]_vars

\* the call of Worker::start that the worker thread takes from its queue
StartRuns == host.start # "none" /\ host'.start = "none"

\* the main thread has called c outside a slot
ApiReturned(c) == host'.seq # host.seq /\ host'.api = c

C23_StatusCheckedBetweenCyclesAsStated == host.late <= 1

----------------------------------------------------------------------------
(* A host that hands execute() words of every unit number, alone and as    *)
(* the second word of a bundle, so that every issue number 0..15 comes up. *)

DispatchRegs ==
  [RegisterSet EXCEPT !.gpi[1] = W(200), !.gpf[1] = W(200)]

\* a word of unit 4, which no executor serves
NoUnit == [Opcode(4, "MOVEI") EXCEPT !.reg_a = 3]

DispatchFirsts ==
  {MoveI(REG_ZERO, 5), FpuReg("FMOVE", 0, REG_ZERO, 1, 0),
   AluReg("ADD", 3, 3, 1, 1), LdImm(0, 3, REG_ZERO, 0), GetEf(3),
   Mdu("MULU", 0, 1, 1), Bra(1), Cu("SYSCALL"), NoUnit}

DispatchSeconds ==
  {MoveI(3, 6), AluReg("ADD", 3, 3, 1, 1), LdImm(0, 3, REG_ZERO, 0),
   FpuReg("FMOVE", 0, 3, 1, 0), NoUnit, Cu("SYSCALL"), Cu("RETI"), GetEf(3),
   Mdu("MULU", 0, 1, 1), Bra(1)}

DispatchCalls ==
  {<<first, Noop>> : first \in DispatchFirsts}
    \cup {<<Bundled(first), second>> :
            first \in {MoveI(REG_ZERO, 5), FpuReg("FMOVE", 0, REG_ZERO, 1, 0)},
            second \in DispatchSeconds}

InitDispatch ==
  /\ InitCore
  /\ m_regs = DispatchRegs

DispatchStep ==
  \E call \in DispatchCalls : Execute(call[1], call[2], DefaultEnv)

NextDispatch == DispatchStep

SpecDispatch == InitDispatch /\ [][NextDispatch]_vars

\* the unit the stated table gives an issue number
StatedUnit(issue) ==
  CASE issue \in {0, 1, 8, 9} -> "ALU"
    [] issue \in {2, 10} -> "LSU"
    [] issue \in {3, 11} -> "FPU"
    [] issue = 5 -> "EFU"
    [] issue = 6 -> "MDU"
    [] issue = 7 -> "BRU"
    [] issue = 13 -> "CU"
    [] issue = 14 -> "VU"
    [] OTHER -> "none"

\* the stated unit run on a core whose GPR 63 and FPR 63 were set to 0
StatedRun(S, op, slot, imm24) ==
  LET S0 == [S EXCEPT !.regs.gpi[63] = Zero, !.regs.gpf[63] = Zero]
      stated == StatedUnit(8 * slot + op.unit)
  IN CASE stated = "ALU" -> execute_alu(S0, op, slot, imm24, "gnu", "wrap")
       [] stated = "LSU" -> execute_lsu(S0, op, slot, imm24)
       [] stated = "FPU" -> execute_fpu(S0, op, slot, imm24, Zero)
       [] stated = "EFU" -> execute_efu(S0, op, imm24, Zero)
       [] stated = "MDU" -> execute_mdu(S0, op, imm24, "trap")
       [] stated = "BRU" -> execute_bru(S0, op, imm24)
       [] stated = "CU" -> execute_cu(S0, op, imm24)
       [] OTHER -> [S0 EXCEPT !.panic = TRUE]

\* the core a call of execute() leaves when each word goes to its stated unit
StatedCall(S, first, second) ==
  LET imm24 == IF first.bundle /\ is_moveix(second) THEN second.moveix_imm24 ELSE 0
      S1 == StatedRun(S, first, 0, imm24)
  IN IF ~S1.panic /\ first.bundle /\ ~is_moveix(second)
     THEN StatedRun(S1, second, 1, imm24)
     ELSE S1

\* C31: every word of a call of execute() is run by the unit the table gives
\* its issue number (slot << 3) | unit, on registers whose GPR 63 and FPR 63
\* were set to 0 first; issues 4, 12, 14 and 15 end in a panic.
C31_DispatchByIssue ==
  [][steps' = steps + 1
       => Core(m_regs', m_syscall', m_memory', panicked')
            = StatedCall(Core(m_regs, m_syscall, m_memory, FALSE),
                         last'.first, last'.second)]_vars

\* a branch word came second in a bundle whose first word wrote GPR 63: the
\* dispatch failed, PC did not move and GPR 63 is 0 again
C31_Witness ==
  /\ last.called /\ panicked
  /\ last.first = Bundled(MoveI(REG_ZERO, 5))
  /\ last.second.unit = AX_UNIT_BRU
  /\ m_regs.pc = last.old_pc
  /\ m_regs.gpi[REG_ZERO] = Zero

----------------------------------------------------------------------------
(* The VMRunner with a program loaded and breakpoints set on its core: the  *)
(* status is Ready, and the main thread calls start, pause, resume and stop *)
(* at any time while the worker thread runs.                               *)

Breakpoint(address, enabled) == [address |-> W(address), enabled |-> enabled]

\* no breakpoint, or one at the first or at the second word, enabled or not
BreakSets ==
  {{}} \cup {{Breakpoint(a, e)} : a \in {0, 4}, e \in BOOLEAN}

\* a program that ends in a SYSCALL, one whose second cycle panics, and one
\* that runs on
BreakPrograms ==
  {SyscallProgram, <<Noop, NoUnit>>, <<Noop, AluImm("ADD", 3, 3, 1, 1)>>}

InitBreak ==
  /\ m_syscall = 0
  /\ m_memory = [a \in 0..(MemSize - 1) |-> 0]
  /\ panicked = FALSE
  /\ last = NoCall
  /\ steps = 0
  /\ m_regs = RegisterSet
  /\ \E image \in BreakPrograms : m_wram = LoadImage(image)
  /\ \E bps \in BreakSets :
       host = [NoHost EXCEPT !.driver = "runner", !.status = "Ready", !.bps = bps]

NextBreak ==
  \/ ApiStart \/ ApiPause \/ ApiResume \/ ApiStop
  \/ WorkerStart \/ WorkerEnter \/ WorkerPoll \/ WorkerCycle \/ WorkerCatch
  \/ WorkerGate \/ WorkerResume \/ MainSlot \/ MainSlotReturn

SpecBreak == InitBreak /\ [][NextBreak]_vars

----------------------------------------------------------------------------
(* The same runner with a program that makes no syscall and does not       *)
(* panic, and a main thread that only starts and resumes it.  The worker   *)
(* thread is scheduled whenever it can take a step; nothing makes the main *)
(* thread call the runner.                                                 *)

InitResume ==
  /\ InitBreak
  /\ m_wram = LoadImage(<<Noop, AluImm("ADD", 3, 3, 1, 1)>>)

NextResume ==
  \/ ApiStart \/ ApiResume
  \/ WorkerStart \/ WorkerEnter \/ WorkerPoll \/ WorkerCycle \/ WorkerGate

\* the worker can take a turn of its inner loop: ENABLED <<WorkerCycle>>_vars
InnerTurnEnabled ==
  /\ host.driver = "runner" /\ host.at = "cycle" /\ ~panicked
  /\ (steps < MaxSteps
        \/ \E bp \in hit_breakpoint(host.bps, m_regs.pc) : bp.enabled)

\* weak fairness of every step of the worker thread; that of WorkerCycle is
\* written out, with InnerTurnEnabled for its ENABLED
SpecResume ==
  /\ InitResume /\ [][NextResume]_vars
  /\ WF_vars(WorkerStart) /\ WF_vars(WorkerEnter) /\ WF_vars(WorkerPoll)
  /\ WF_vars(WorkerGate)
  /\ ([]<>~InnerTurnEnabled \/ []<><<WorkerCycle>>_vars)

\* the worker has passed through the catch block and left start()
WorkerCaught ==
  /\ ~panicked'
  /\ host'.signal = "corePanic" /\ host'.status = "Stopped"
  /\ host'.at = "left" /\ ~WorkerHoldsMutex'

\* C32: once cycle() has panicked in the worker's loop no cycle runs and the
\* core is not touched; the worker's next step emits corePanic, sets the
\* status to Stopped and leaves start(), which frees the mutex; after that
\* the status stays Stopped, pause() and resume() return false and no cycle
\* is executed.
C32_PanicStopsWorker ==
  [][/\ panicked =>
          /\ steps' = steps /\ m_regs' = m_regs /\ m_memory' = m_memory
          /\ (host'.at # host.at \/ ~panicked') => WorkerCaught
     /\ host.signal = "corePanic" =>
          /\ steps' = steps /\ ~panicked'
          /\ host'.status = "Stopped" /\ host'.at = "left"
          /\ (ApiReturned("pause") \/ ApiReturned("resume")) =>
               host'.result = "false"]_vars

\* the second cycle met a word of unit 4: corePanic was emitted, the status
\* is Stopped, the worker has left start(), and a resume() made since then
\* has returned false
C32_Witness ==
  /\ last.called /\ last.first = NoUnit /\ steps = 2 /\ ~panicked
  /\ host.signal = "corePanic" /\ host.status = "Stopped" /\ host.at = "left"
  /\ host.api = "resume" /\ host.result = "false"

\* (PC & 0x7FFFFFFF) * 4, the byte address of the word at PC
StatedByteAddress(pc) ==
  LET word == AndW(pc, Word4(0, 0, 32767, 65535))
  IN Add(Add(word, word), Add(word, word))

BreakpointsAt(pc) == {bp \in host.bps : bp.address = StatedByteAddress(pc)}

EnabledAt(pc) == \E bp \in BreakpointsAt(pc) : bp.enabled

\* the worker takes one turn of its inner loop
InnerTurn == host.at = "cycle" /\ host'.at # "cycle"

\* C33: no cycle() runs while the byte address of PC is that of an enabled
\* breakpoint: the worker's turn sets the status to Paused and ends the pass
\* with the core untouched; at a disabled breakpoint hit_breakpoint()
\* returns the entry and the cycle runs; without breakpoints it returns none.
C33_BreakpointPausesWorker ==
  [][/\ steps' = steps + 1 => ~EnabledAt(m_regs.pc)
     /\ (InnerTurn /\ EnabledAt(m_regs.pc)) =>
          /\ host'.status = "Paused" /\ host'.at = "poll"
          /\ host'.hit = "enabled"
          /\ steps' = steps /\ m_regs' = m_regs /\ m_syscall' = m_syscall
     /\ (InnerTurn /\ BreakpointsAt(m_regs.pc) # {} /\ ~EnabledAt(m_regs.pc)) =>
          /\ host'.hit = "disabled"
          /\ host'.status = host.status /\ steps' = steps + 1
     /\ (InnerTurn /\ BreakpointsAt(m_regs.pc) = {}) =>
          /\ host'.hit = "none"
          /\ host'.status = host.status /\ steps' = steps + 1]_vars

\* started running with an enabled breakpoint on the second word: one cycle
\* ran, and the worker set Paused (no pause() was called) with PC at 1
C33_Witness ==
  /\ host.bps = {Breakpoint(4, TRUE)} /\ m_regs.pc = One
  /\ steps = 1 /\ ~panicked
  /\ host.status = "Paused" /\ host.at = "poll" /\ host.hit = "enabled"
  /\ host.api = "start"

\* resume() has returned true, and it is the last call made on the runner
ResumeReturnedTrue == host.api = "resume" /\ host.result = "true"

\* the worker's last turn ended at an enabled breakpoint after n cycles, and
\* resume() has returned true since
ResumedAtBreakpoint(n) ==
  /\ host.driver = "runner" /\ host.hit = "enabled" /\ steps = n
  /\ host.status = "Running" /\ ResumeReturnedTrue

\* C34, as stated: when the worker has paused at an enabled breakpoint and
\* resume() has returned true, the worker goes on to execute the bundle at the
\* breakpoint (unless the main thread calls the runner again first).
C34_ProgressPastBreakpointAsStated ==
  \A n \in 0..(MaxSteps - 1) :
    ResumedAtBreakpoint(n) ~> (steps > n \/ ~ResumeReturnedTrue)

\* a step of the worker thread inside Worker::start
WorkerMoved == host.driver = "runner" /\ host'.at # host.at

\* C35, as stated: once the status is Stopped no step of the worker thread
\* changes it.
C35_StopNeverLostAsStated ==
  [][(host.status = "Stopped" /\ WorkerMoved) => host'.status = "Stopped"]_vars

\* the main thread is inside stop(true) of a load function, waiting for the
\* thread-running mutex
LoadWaitsForMutex == host.main \in {"loading", "loading_posted"}

\* the worker thread is inside the emission of the syscall signal, waiting for
\* the main thread to run the slot, with the mutex held
WorkerWaitsForSlot == host.at = "blocked" /\ WorkerHoldsMutex

\* C36, as stated: the main thread never waits for the mutex of a worker
\* that waits for the main thread.
C36_LoadReturnsAsStated == ~(LoadWaitsForMutex /\ WorkerWaitsForSlot)

\* C37, as stated: the panic of the status switch is never raised.
C37_StatusKnownAsStated ==
  ~(host.driver = "runner" /\ host.at = "poll" /\ panicked)

\* the step emits coreError
CoreErrorEmitted ==
  /\ host'.signal = "coreError"
  /\ host'.signal # host.signal \/ host'.code # host.code \/ host'.turn # host.turn

\* C38, as stated: coreError is emitted only when the error of the core is
\* not 0, and carries that error.
C38_CoreErrorOnlyOnErrorAsStated ==
  [][CoreErrorEmitted => (error # 0 /\ host'.code = error)]_vars

----------------------------------------------------------------------------
(* A host sets PC, GPR 1 and GPR 2 and issues INDIRECTCALL and             *)
(* INDIRECTCALLR with every pair of link and target registers.             *)

IndirectRegs == {1, 2, 31}

InitIndirect ==
  /\ InitCore
  /\ \E p \in CallPCs :
       m_regs = [RegisterSet EXCEPT !.pc = p, !.gpi[1] = W(200),
                                    !.gpi[2] = AllOnes(XLEN)]

IndirectStep ==
  \E o \in {"INDIRECTCALL", "INDIRECTCALLR"}, a \in IndirectRegs,
     b \in IndirectRegs, bundle \in BOOLEAN :
    Execute([IndirectCall(o, a, b) EXCEPT !.bundle = bundle], Noop, DefaultEnv)

NextIndirect == IndirectStep

SpecIndirect == InitIndirect /\ [][NextIndirect]_vars

\* C39, as stated: INDIRECTCALL sets PC to the value GPR[reg_b] held before
\* the instruction and INDIRECTCALLR adds that value to PC (on the 32 bits
\* of PC), for every reg_a and reg_b.
C39_IndirectTargetAsStated ==
  [][steps' = steps + 1 /\ ~panicked' =>
       LET target == m_regs.gpi[last'.first.reg_b]
       IN IF last'.first.operation = "INDIRECTCALL"
          THEN m_regs'.pc = Cast(target, PCLEN)
          ELSE m_regs'.pc = Cast(Add(m_regs.pc, target), PCLEN)]_vars

----------------------------------------------------------------------------
(* A host starts a core with FR = 0, sets GPR 1, GPR 2, FPR 1 and FPR 2    *)
(* and issues any sequence of integer compares (every size, both builds),  *)
(* float compares, conditional branches and an addition.                   *)

FlagGprs ==
  {<<Zero, Zero>>, <<W(127), W(255)>>, <<Zero, One>>,
   <<Word4(32768, 0, 0, 0), One>>, <<Word4(1, 1, 1, 32768), Word4(0, 0, 0, 32768)>>}

FlagFprs ==
  {<<Zero, Word4(0, 0, 32768, 0)>>, <<Word4(0, 0, 16256, 0), Word4(0, 0, 16384, 0)>>,
   <<Word4(0, 0, 32704, 0), Zero>>, <<Word4(16368, 0, 0, 0), Word4(16368, 0, 0, 0)>>}

FlagWords ==
  {AluReg("CMP", size, REG_ZERO, 1, 2) : size \in 0..3}
    \cup {FpuReg("FCMP", size, REG_ZERO, 1, 2) : size \in 0..1}
    \cup {Brc(o, 1) : o \in ConditionalBranches}
    \cup {AluImm("ADD", 3, 3, 1, 1)}

InitFlags ==
  /\ InitCore
  /\ \E g \in FlagGprs, f \in FlagFprs :
       m_regs = [RegisterSet EXCEPT !.gpi[1] = g[1], !.gpi[2] = g[2],
                                    !.gpf[1] = f[1], !.gpf[2] = f[2],
                                    !.pc = W(42)]

FlagStep ==
  \E w \in FlagWords, build \in Builds :
    Execute(w, Noop, Env(build, "wrap", Zero))

NextFlags == FlagStep

SpecFlags == InitFlags /\ [][NextFlags]_vars

\* the predicate of the conditional branch o holds on the current FR
Predicate(o) == bru_condition(Core(m_regs, m_syscall, m_memory, FALSE), o)

\* C40: starting from FR = 0, in every state reached by any sequence of
\* instructions, U set means FR is exactly 0x10 and Z set means C, N and O
\* are clear; so with U clear exactly one of BLT/BGE and exactly one of
\* BLTU/BGEU has a true predicate, and for every FR exactly one of BEQ/BNEU
\* and exactly one of BNE/BEQU has a true predicate.
C40_FlagConsistency ==
  LET fr == m_regs.fr
  IN /\ HasFlag(fr, U_MASK) => fr = 16
     /\ HasFlag(fr, Z_MASK) =>
          ~HasFlag(fr, C_MASK) /\ ~HasFlag(fr, N_MASK) /\ ~HasFlag(fr, O_MASK)
     /\ ~HasFlag(fr, U_MASK) =>
          /\ Predicate("BLT") # Predicate("BGE")
          /\ Predicate("BLTU") # Predicate("BGEU")
     /\ Predicate("BEQ") # Predicate("BNEU")
     /\ Predicate("BNE") # Predicate("BEQU")

\* a float compare with a NaN came right after the byte compare of 0x7F with
\* 0xFF had set C, N and O, and FR is exactly U
C40_Witness ==
  /\ last.called /\ last.prev_called /\ ~panicked
  /\ last.prev_first = AluReg("CMP", 0, REG_ZERO, 1, 2)
  /\ last.first = FpuReg("FCMP", 0, REG_ZERO, 1, 2)
  /\ m_regs.gpi[1] = W(127) /\ m_regs.gpi[2] = W(255)
  /\ m_regs.gpf[1] = Word4(0, 0, 32704, 0)
  /\ m_regs.fr = U_MASK

============================================================================
